---- MODULE Spec2Model ----
(***************************************************************************)
(* Tool configuration service of nexent                                    *)
(* (backend/services/tool_configuration_service.py).                       *)
(*                                                                         *)
(* Two parts are modelled:                                                 *)
(*   - the Dispatch Router: validate_tool_impl and its three backends     *)
(*     (_validate_local_tool, _validate_langchain_tool, the MCP helpers),  *)
(*   - the Catalog Reconciler: update_tool_list with the Remote Adapter    *)
(*     get_all_mcp_tools / get_tool_from_remote_mcp_server.                *)
(*                                                                         *)
(* Python values are encoded as follows.  An exception is a record         *)
(* [kind, msg]: kind is the exception class, msg the message as a sequence *)
(* of tokens (an f-string is the concatenation of its pieces).  An         *)
(* Optional[Dict] is a record [none, kv] with kv a set of <<key, value>>.  *)
(* Every call a handler makes to a collaborator is appended to an effect   *)
(* log, so that "was never called" is a property of the log.               *)
(***************************************************************************)
EXTENDS Integers, Sequences, FiniteSets, TLC

VARIABLES
    vpc,        \* position of the validate request: "idle", "called", "returned"
    vreq,       \* the ToolValidateRequest being served
    venv,       \* what the collaborators answered during the call
    vbackend,   \* outcome of the selected backend inside validate_tool_impl
    vresult,    \* outcome seen by the caller of validate_tool_impl
    veffects    \* collaborator calls made by the validate call, in order

vvars == <<vpc, vreq, venv, vbackend, vresult, veffects>>

VARIABLES
    spc,             \* position of update_tool_list: "idle", "langchain", "records",
                     \*   "servers", "default", "done"
    local_tools,     \* update_tool_list: result of get_local_tools()
    langchain_tools, \* update_tool_list: result of get_langchain_tools()
    mcp_info,        \* get_all_mcp_tools: the tenant's server records
    sidx,            \* get_all_mcp_tools: index of the record being queried
    tools_info,      \* get_all_mcp_tools: remote tools gathered so far
    squeried,        \* sessions opened by the scan, in order, with their outcome
    mcp_result,      \* outcome of get_all_mcp_tools seen by update_tool_list
    sresult,         \* outcome of update_tool_list seen by its caller
    upsert_arg,      \* the call of update_tool_table_from_scan_tool_list, if made
    catalog          \* the tenant's persisted tool catalog (ag_tool_info_t rows)

svars == <<spc, local_tools, langchain_tools, mcp_info, sidx, tools_info,
           squeried, mcp_result, sresult, upsert_arg, catalog>>

VARIABLES
    instances,  \* the tenant's ToolInstance rows (ag_tool_instance_t)
    rescan      \* history: the scan just run was handed the same adapter
                \*   outputs as the successful scan before it

cvars == <<instances, rescan>>

VARIABLES
    upc,                \* position of initialize_tools_on_startup: "idle", "loop",
                        \*   "waiting" (in wait_for), "finished", "raised"
    tenant_ids,         \* the list get_all_tenant_ids() returned
    tidx,               \* index of the tenant the loop is at
    tasks,              \* per tenant, the update_tool_list task wait_for started
    attempts,           \* history: the tenants update_tool_list was called for, in order
    tenant_rows,        \* per tenant, the rows of ag_tool_info_t
    total_tools,
    successful_tenants,
    failed_tenants

uvars == <<upc, tenant_ids, tidx, tasks, attempts, tenant_rows, total_tools,
           successful_tenants, failed_tenants>>

\* one adapter run on the items it discovers
VARIABLES
    apc,    \* "idle", "called" or "returned"
    ain,    \* the adapter called, the items discovered and the server asked
    aout    \* what the adapter returned or raised, with the descriptors
avars == <<apc, ain, aout>>

\* one request to POST /tool/validate
VARIABLES
    hpc,    \* "idle", "called" or "responded"
    hreq,   \* the request body
    hauth,  \* what get_current_user_id does with the authorization header
    himpl,  \* what validate_tool_impl returned or raised, if it was called
    hresp   \* the response: status code and content or detail
hvars == <<hpc, hreq, hauth, himpl, hresp>>

\* one call of a file tool's forward
VARIABLES
    fpc,    \* "idle", "called" or "done"
    fcall,  \* the tool and its path arguments
    ffs,    \* the file system
    fwas,   \* history: the file system when forward was entered
    fout    \* what forward returned or raised
fvars == <<fpc, fcall, ffs, fwas, fout>>

\* one TerminalTool instance and the SSH sessions it has created
VARIABLES
    tpc,        \* "idle", "called" or "returned"
    tcall,      \* the arguments of the forward call
    _sessions,  \* TerminalTool._sessions: session name -> session, 0 when absent
    tconn,      \* the sessions created so far, each "alive", "dead" or "closed"
    tlog,       \* what the last call did to sessions, in order
    tout        \* what the last call returned

tvars == <<tpc, tcall, _sessions, tconn, tlog, tout>>

ovars == <<cvars, uvars, avars, hvars, fvars, tvars>>

vars == <<vvars, svars, ovars>>

-----------------------------------------------------------------------------
(* Python values *)

NoneStr == "None"

Ok(val) == [kind |-> "ok", msg |-> val]
Exc(kind, msg) == [kind |-> kind, msg |-> msg]
NoOutcome == [kind |-> "none", msg |-> <<>>]

\* str(e) of an exception built from one message argument is that message
Str(e) == e.msg

NoneDict == [none |-> TRUE, kv |-> {}]
Dict(kv) == [none |-> FALSE, kv |-> kv]
Keys(kv) == {p[1] : p \in kv}

\* `d or {}`: None and the empty dict are both falsy
OrEmpty(d) == IF d.none \/ d.kv = {} THEN {} ELSE d.kv

Eff(op, arg, kv) == [op |-> op, arg |-> arg, kv |-> kv]

\* a Python scalar: kind is "str", "bool", "int", "none" or "undefined"
\* (PydanticUndefined), val its text
Val(kind, val) == [kind |-> kind, val |-> val]

PyNone == Val("none", "None")
PydanticUndefined == Val("undefined", "PydanticUndefined")

\* an insertion-ordered dict is a sequence of <<key, value>> pairs, a key once
HasKey(d, k) == \E i \in 1..Len(d) : d[i][1] = k

\* d[k] = v: the value of a present key is replaced in place, a new key is
\* appended
Put(d, k, v) ==
    IF HasKey(d, k)
    THEN [i \in 1..Len(d) |-> IF d[i][1] = k THEN <<k, v>> ELSE d[i]]
    ELSE Append(d, <<k, v>>)

\* text is a sequence of tokens: a string literal in double or in single
\* quotes, a bare literal (true, None, 5), or a punctuation mark
Tok(t, sv) == [t |-> t, s |-> sv]

\* how json.dumps and str() write a scalar
ScalarText(v, style) ==
    CASE v.kind = "str" -> Tok(IF style = "json" THEN "dq" ELSE "sq", v.val)
      [] v.kind = "bool" /\ style = "json" ->
            Tok("lit", IF v.val = "True" THEN "true" ELSE "false")
      [] v.kind = "none" /\ style = "json" -> Tok("lit", "null")
      [] v.kind = "int" -> Tok("num", v.val)
      [] OTHER -> Tok("lit", v.val)

KeyText(k, style) == Tok(IF style = "json" THEN "dq" ELSE "sq", k)

\* the members of a dict of scalars, comma separated
RECURSIVE AttrsText(_, _)
AttrsText(attrs, style) ==
    IF attrs = <<>> THEN <<>>
    ELSE <<KeyText(Head(attrs)[1], style), Tok("punct", ":"),
           ScalarText(Head(attrs)[2], style)>>
         \o (IF Len(attrs) > 1 THEN <<Tok("punct", ",")>> ELSE <<>>)
         \o AttrsText(Tail(attrs), style)

\* the members of a dict whose values are dicts of scalars
RECURSIVE PropsText(_, _)
PropsText(props, style) ==
    IF props = <<>> THEN <<>>
    ELSE <<KeyText(Head(props)[1], style), Tok("punct", ":"), Tok("punct", "{")>>
         \o AttrsText(Head(props)[2], style) \o <<Tok("punct", "}")>>
         \o (IF Len(props) > 1 THEN <<Tok("punct", ",")>> ELSE <<>>)
         \o PropsText(Tail(props), style)

\* json.dumps(d, ensure_ascii=False) of a dict of dicts of scalars
json_dumps(props) == <<Tok("punct", "{")>> \o PropsText(props, "json") \o <<Tok("punct", "}")>>

\* str(d) of the same dict: the repr, with single quotes and Python literals
str_dict(props) == <<Tok("punct", "{")>> \o PropsText(props, "repr") \o <<Tok("punct", "}")>>

JsonLiterals == {"true", "false", "null"}

ParseFail == [ok |-> FALSE, rest |-> <<>>]

\* a JSON reader over tokens: value := string | literal | object,
\* object := { } | { string : value (, string : value)* }; the result says
\* whether a value was read and what text is left
RECURSIVE ParseValue(_), ParseMembers(_)
ParseValue(text) ==
    IF text = <<>> THEN ParseFail
    ELSE LET h == Head(text)
         IN CASE h.t \in {"dq", "num"} -> [ok |-> TRUE, rest |-> Tail(text)]
              [] h.t = "lit" /\ h.s \in JsonLiterals -> [ok |-> TRUE, rest |-> Tail(text)]
              [] h = Tok("punct", "{") ->
                    IF Len(text) > 1 /\ text[2] = Tok("punct", "}")
                    THEN [ok |-> TRUE, rest |-> Tail(Tail(text))]
                    ELSE ParseMembers(Tail(text))
              [] OTHER -> ParseFail

ParseMembers(text) ==
    IF Len(text) < 3 \/ text[1].t # "dq" \/ text[2] # Tok("punct", ":")
    THEN ParseFail
    ELSE LET v == ParseValue(Tail(Tail(text)))
         IN CASE ~v.ok \/ v.rest = <<>> -> ParseFail
              [] Head(v.rest) = Tok("punct", "}") -> [ok |-> TRUE, rest |-> Tail(v.rest)]
              [] Head(v.rest) = Tok("punct", ",") -> ParseMembers(Tail(v.rest))
              [] OTHER -> ParseFail

\* json.loads(text) succeeds
IsJsonText(text) ==
    LET v == ParseValue(text) IN v.ok /\ v.rest = <<>>

\* python_type_to_json_schema; an annotation is known by its __name__,
\* "empty" stands for inspect.Parameter.empty
python_type_to_json_schema(annotation) ==
    CASE annotation = "empty" -> "string"
      [] annotation = "str"   -> "string"
      [] annotation = "int"   -> "integer"
      [] annotation = "float" -> "float"
      [] annotation = "bool"  -> "boolean"
      [] annotation \in {"list", "List", "tuple", "Tuple"} -> "array"
      [] annotation \in {"dict", "Dict"} -> "object"
      [] annotation = "Any"   -> "any"
      [] OTHER -> annotation

-----------------------------------------------------------------------------
(* The collaborators' answers, drawn from small sets *)

MaxPlugins == 2     \* longest list returned by plugin discovery
MaxServers == 2     \* most registered servers of a tenant
MaxRemoteTools == 1 \* longest tool list a remote server returns

\* names a request may ask for: "t1" is carried by tool classes and plugin
\* objects below, "t2" by none
ToolNames == {"t1", "t2"}

\* a parameter of a constructor as inspect.signature shows it: `isField`
\* says that its default is a pydantic Field, whose description, default and
\* exclude flag follow
Param(name, annotation, isField, description, default, exclude) ==
    [name |-> name, annotation |-> annotation, isField |-> isField,
     description |-> description, default |-> default, exclude |-> exclude]

SelfParam == Param("self", "empty", FALSE, "", PydanticUndefined, FALSE)

FieldParam(name, annotation, description, default, exclude) ==
    Param(name, annotation, TRUE, description, default, exclude)

\* observer: MessageObserver = Field(description=..., default=None, exclude=True)
ObserverParam == FieldParam("observer", "MessageObserver", "Message observer", PyNone, TRUE)

\* a class of the package: its __name__, its `name` attribute if it has
\* one, the signature of __init__ and its `inputs` attribute; `ctor` holds
\* the constructor's parameter names other than self
ToolClass(cls, hasName, name, sig, inputs) ==
    [cls |-> cls, hasName |-> hasName, name |-> name,
     ctor |-> {sig[i].name : i \in 1..Len(sig)} \ {"self"},
     sig |-> sig, inputs |-> inputs]

\* classes of the nexent.core.tools package, in dir() order (sorted by name);
\* `ctor` holds the constructor's parameters other than self
ClassOrder == <<
    ToolClass("AlphaTool", TRUE, "t1",
        <<SelfParam, FieldParam("p", "str", "the p", PydanticUndefined, FALSE), ObserverParam>>,
        <<<<"q", <<<<"type", Val("str", "string")>>,
                   <<"description", Val("str", "the q")>>>>>>>>),
    ToolClass("AlphaTwin", TRUE, "t1",
        <<SelfParam, FieldParam("p", "bool", "the p", Val("bool", "True"), FALSE)>>,
        <<>>),
    ToolClass("GammaMixin", FALSE, "", <<SelfParam>>, <<>>) >>

ClassSet == {ClassOrder[i] : i \in 1..Len(ClassOrder)}

Ordered(S) == LET Member(c) == c \in S IN SelectSeq(ClassOrder, Member)

\* the package content seen by one import: any subset, in dir() order
Registries == {Ordered(S) : S \in SUBSET ClassSet}

\* objects returned by discover_langchain_modules(), each with its file;
\* plugC has neither a name nor a named callable behind it
PluginObjects == {
    [obj |-> "plugA", hasName |-> TRUE,  name |-> "t1", file |-> "a.py",
     args |-> <<<<"q", <<<<"type", Val("str", "string")>>>>>>>>],
    [obj |-> "plugC", hasName |-> FALSE, name |-> "",   file |-> "c.py", args |-> <<>>] }

SeqsUpTo(S, n) == UNION {[1..k -> S] : k \in 0..n}

Discoveries == SeqsUpTo(PluginObjects, MaxPlugins)

\* the implicit default server: urljoin(LOCAL_MCP_SERVER, "sse")
DefaultToken == "nexent"
DefaultUrl == "LOCAL_MCP_SERVER/sse"

ServerNames == {"srvA", "srvB", "nexent"}

UrlOf(n) == CASE n = "srvA" -> "http://srvA"
              [] n = "srvB" -> "http://srvB"
              [] OTHER      -> "http://registered-nexent"

\* McpRecord.status is a nullable Boolean: connected, disconnected, unknown
Statuses == {"True", "False", NoneStr}

\* rows of the tenant's registered-server table (mcp_record_t)
ServerRecords == {[mcp_name |-> n, mcp_server |-> UrlOf(n), status |-> st] :
                    n \in ServerNames, st \in Statuses}

\* a tenant registers a server name once
DistinctNames(records) ==
    \A i, j \in 1..Len(records) : records[i].mcp_name = records[j].mcp_name => i = j

RecordLists == {l \in SeqsUpTo(ServerRecords, MaxServers) : DistinctNames(l)}

\* what a protocol session does once opened
NetBehaviours == {"connect_raises", "not_connected", "call_raises", "empty_result", "ok"}

\* what the resolved tool does when instantiated and run
ToolBehaviours == {"ok", "init_raises", "run_raises"}

QuietEnv == [classes |-> <<>>, importRaises |-> FALSE, tool |-> "ok",
             plugins |-> <<>>, records |-> <<>>, net |-> "ok"]

\* the answers that matter to a request of the given source; the others are
\* never asked for and are left at their quiet value
EnvsFor(source) ==
    CASE source = "local" ->
            {[QuietEnv EXCEPT !.classes = c, !.tool = t] :
                c \in Registries, t \in ToolBehaviours}
            \cup {[QuietEnv EXCEPT !.importRaises = TRUE]}
      [] source = "langchain" ->
            {[QuietEnv EXCEPT !.plugins = d, !.tool = t] :
                d \in Discoveries, t \in {"ok", "run_raises"}}
      [] source = "mcp" ->
            {[QuietEnv EXCEPT !.records = r, !.net = n] :
                r \in RecordLists, n \in NetBehaviours}
      [] OTHER -> {QuietEnv}

Sources == {"local", "mcp", "langchain", "unsupported"}
Usages == {NoneStr, DefaultToken, "srvA"}
InputDicts == {NoneDict, Dict({<<"q", "v">>})}
ParamDicts == {NoneDict, Dict({<<"p", "1">>}), Dict({<<"observer", "obs">>})}

\* consts/model.py ToolValidateRequest
Requests == [name : ToolNames, source : Sources, usage : Usages,
             inputs : InputDicts, params : ParamDicts]

NoRequest == [name |-> "", source |-> "", usage |-> NoneStr,
              inputs |-> NoneDict, params |-> NoneDict]

-----------------------------------------------------------------------------
(* Dispatch Router *)

\* the first of a set of matching indices, 0 when nothing matches
FirstIndex(matching) ==
    IF matching = {} THEN 0
    ELSE CHOOSE i \in matching : \A j \in matching : i <= j

\* returns the index of the class in env.classes, 0 for None
_get_tool_class_by_name(tool_name, env) ==
    IF env.importRaises
    THEN 0
    ELSE LET Match(c) == c.hasName /\ c.name = tool_name
         IN FirstIndex({i \in 1..Len(env.classes) : Match(env.classes[i])})

\* variant: observer=None is passed to every constructor
instantiation_params_always_observer(c, params) ==
    OrEmpty(params) \cup {<<"observer", NoneStr>>}

\* the constructor arguments _validate_local_tool passes to the class
instantiation_params(c, params) ==
    LET given == OrEmpty(params)
    IN IF "observer" \in c.ctor /\ "observer" \notin Keys(given)
       THEN given \cup {<<"observer", NoneStr>>}
       ELSE given

\* variant: the cause is raised as it is
LocalWrap_reraise(tool_name, e) == e

LocalWrap(tool_name, e) ==
    Exc("ToolExecutionException",
        <<"Local tool", tool_name, "validation failed:">> \o Str(e))

_validate_local_tool(tool_name, inputs, params, env) ==
    LET idx == _get_tool_class_by_name(tool_name, env)
        scan == <<Eff("registry_scan", tool_name, {})>>
    IN IF idx = 0
       THEN [out |-> LocalWrap(tool_name,
                        Exc("NotFoundException", <<"Tool class not found for", tool_name>>)),
             eff |-> scan]
       ELSE LET c == env.classes[idx]
                args == instantiation_params(c, params)
                init == scan \o <<Eff("instantiate", c.cls, args)>>
                run == init \o <<Eff("forward", c.cls, OrEmpty(inputs))>>
            IN IF ~(Keys(args) \subseteq c.ctor)
               THEN [out |-> LocalWrap(tool_name,
                                Exc("TypeError", <<"unexpected keyword argument">>)),
                     eff |-> init]
               ELSE IF env.tool = "init_raises"
               THEN [out |-> LocalWrap(tool_name, Exc("Exception", <<"init failed">>)),
                     eff |-> init]
               ELSE IF env.tool = "run_raises"
               THEN [out |-> LocalWrap(tool_name, Exc("Exception", <<"Execution failed">>)),
                     eff |-> run]
               ELSE [out |-> Ok(<<"forward result of", c.cls>>), eff |-> run]

LangchainWrap(tool_name, e) ==
    Exc("ToolExecutionException",
        <<"LangChain tool", tool_name, "validation failed:">> \o Str(e))

_validate_langchain_tool(tool_name, inputs, env) ==
    LET discovered_tools == env.plugins
        Match(o) == o.hasName /\ o.name = tool_name
        idx == FirstIndex({i \in 1..Len(discovered_tools) : Match(discovered_tools[i])})
        disc == <<Eff("discover", "", {})>>
    IN IF idx = 0
       THEN [out |-> LangchainWrap(tool_name,
                        Exc("NotFoundException",
                            <<"Tool", tool_name, "not found in LangChain tools">>)),
             eff |-> disc]
       ELSE LET target_tool == discovered_tools[idx]
                run == disc \o <<Eff("invoke", target_tool.obj, OrEmpty(inputs))>>
            IN IF env.tool = "run_raises"
               THEN [out |-> LangchainWrap(tool_name, Exc("Exception", <<"Execution failed">>)),
                     eff |-> run]
               ELSE [out |-> Ok(<<"invoke result of", target_tool.obj>>), eff |-> run]

\* variant: the tool is called without asking the session whether it is connected
_call_mcp_tool_unchecked(mcp_url, tool_name, inputs, env) ==
    LET open == <<Eff("client_open", mcp_url, {})>>
        close == <<Eff("client_close", mcp_url, {})>>
        call == open \o <<Eff("call_tool", tool_name, inputs.kv)>>
    IN CASE env.net = "connect_raises" ->
                [out |-> Exc("RuntimeError", <<"client failed to connect">>), eff |-> open]
         [] env.net \in {"not_connected", "call_raises"} ->
                [out |-> Exc("ToolError", <<"remote tool failed">>), eff |-> call \o close]
         [] env.net = "empty_result" ->
                [out |-> Exc("IndexError", <<"list index out of range">>),
                 eff |-> call \o close]
         [] OTHER ->
                [out |-> Ok(<<"text of first result of", tool_name, "at", mcp_url>>),
                 eff |-> call \o close]

_call_mcp_tool(mcp_url, tool_name, inputs, env) ==
    LET open == <<Eff("client_open", mcp_url, {})>>
        close == <<Eff("client_close", mcp_url, {})>>
        check == open \o <<Eff("is_connected", mcp_url, {})>>
        call == check \o <<Eff("call_tool", tool_name, inputs.kv)>>
    IN CASE env.net = "connect_raises" ->
                [out |-> Exc("RuntimeError", <<"client failed to connect">>), eff |-> open]
         [] env.net = "not_connected" ->
                [out |-> Exc("MCPConnectionError", <<"Failed to connect to MCP server">>),
                 eff |-> check \o close]
         [] env.net = "call_raises" ->
                [out |-> Exc("ToolError", <<"remote tool failed">>), eff |-> call \o close]
         [] env.net = "empty_result" ->
                [out |-> Exc("IndexError", <<"list index out of range">>),
                 eff |-> call \o close]
         [] OTHER ->
                [out |-> Ok(<<"text of first result of", tool_name, "at", mcp_url>>),
                 eff |-> call \o close]

_validate_mcp_tool_nexent(tool_name, inputs, env) ==
    LET actual_mcp_url == DefaultUrl
    IN _call_mcp_tool(actual_mcp_url, tool_name, inputs, env)

\* database.remote_mcp_db: the URL registered under the name, None when absent
get_mcp_server_by_name_and_tenant(usage, env) ==
    LET Match(r) == r.mcp_name = usage
        idx == FirstIndex({i \in 1..Len(env.records) : Match(env.records[i])})
    IN IF idx = 0 THEN NoneStr ELSE env.records[idx].mcp_server

\* variant: an unknown server name falls back to the default server
_validate_mcp_tool_remote_fallback(tool_name, inputs, usage, env) ==
    LET actual_mcp_url == get_mcp_server_by_name_and_tenant(usage, env)
        lookup == <<Eff("get_mcp_server", usage, {})>>
        url == IF actual_mcp_url \in {NoneStr, ""} THEN DefaultUrl ELSE actual_mcp_url
        r == _call_mcp_tool(url, tool_name, inputs, env)
    IN [out |-> r.out, eff |-> lookup \o r.eff]

_validate_mcp_tool_remote(tool_name, inputs, usage, env) ==
    LET actual_mcp_url == get_mcp_server_by_name_and_tenant(usage, env)
        lookup == <<Eff("get_mcp_server", usage, {})>>
    IN IF actual_mcp_url \in {NoneStr, ""}
       THEN [out |-> Exc("NotFoundException", <<"MCP server not found for name:", usage>>),
             eff |-> lookup]
       ELSE LET r == _call_mcp_tool(actual_mcp_url, tool_name, inputs, env)
            IN [out |-> r.out, eff |-> lookup \o r.eff]

\* variant: every MCP request is resolved through the registered servers
Dispatch_no_default_branch(request, env) ==
    CASE request.source = "mcp" ->
            _validate_mcp_tool_remote(request.name, request.inputs, request.usage, env)
      [] request.source = "local" ->
            _validate_local_tool(request.name, request.inputs, request.params, env)
      [] request.source = "langchain" ->
            _validate_langchain_tool(request.name, request.inputs, env)
      [] OTHER ->
            [out |-> Exc("Exception", <<"Unsupported tool source:", request.source>>),
             eff |-> <<>>]

\* variant: a source that is neither mcp nor local is taken for langchain
Dispatch_langchain_fallthrough(request, env) ==
    CASE request.source = "mcp" ->
            IF request.usage = "nexent"
            THEN _validate_mcp_tool_nexent(request.name, request.inputs, env)
            ELSE _validate_mcp_tool_remote(request.name, request.inputs, request.usage, env)
      [] request.source = "local" ->
            _validate_local_tool(request.name, request.inputs, request.params, env)
      [] OTHER ->
            _validate_langchain_tool(request.name, request.inputs, env)

\* the body of the try block of validate_tool_impl: the selected backend
Dispatch(request, env) ==
    CASE request.source = "mcp" ->
            IF request.usage = "nexent"
            THEN _validate_mcp_tool_nexent(request.name, request.inputs, env)
            ELSE _validate_mcp_tool_remote(request.name, request.inputs, request.usage, env)
      [] request.source = "local" ->
            _validate_local_tool(request.name, request.inputs, request.params, env)
      [] request.source = "langchain" ->
            _validate_langchain_tool(request.name, request.inputs, env)
      [] OTHER ->
            [out |-> Exc("Exception", <<"Unsupported tool source:", request.source>>),
             eff |-> <<>>]

\* variant: a single except clause that wraps everything
Reraise_collapse(e) ==
    CASE e.kind = "ok" -> e
      [] OTHER -> Exc("ToolExecutionException", Str(e))

\* the except clauses of validate_tool_impl
Reraise(e) ==
    CASE e.kind = "ok" -> e
      [] e.kind = "NotFoundException" -> Exc("NotFoundException", Str(e))
      [] e.kind = "MCPConnectionError" -> Exc("MCPConnectionError", Str(e))
      [] OTHER -> Exc("ToolExecutionException", Str(e))

\* variant: the configuration validated is saved as the tool's instance
validate_tool_impl_saving(request, env) ==
    LET r == Dispatch(request, env)
    IN [backend |-> r.out, out |-> Reraise(r.out),
        eff |-> r.eff \o <<Eff("create_or_update_tool_by_tool_info", request.name,
                               OrEmpty(request.params))>>]

validate_tool_impl(request, env) ==
    LET r == Dispatch(request, env)
    IN [backend |-> r.out, out |-> Reraise(r.out), eff |-> r.eff]

-----------------------------------------------------------------------------
(* Actions of the Dispatch Router *)

\* a caller hands a request to validate_tool_impl
SubmitValidate ==
    /\ vpc \in {"idle", "returned"}
    /\ \E r \in Requests : vreq' = r
    /\ vpc' = "called"
    /\ venv' = QuietEnv
    /\ vbackend' = NoOutcome
    /\ vresult' = NoOutcome
    /\ veffects' = <<>>
    /\ UNCHANGED <<svars, ovars>>

\* validate_tool_impl runs to its return or raise
ValidateTool ==
    /\ vpc = "called"
    /\ \E env \in EnvsFor(vreq.source) :
          LET r == validate_tool_impl(vreq, env)
          IN /\ venv' = env
             /\ vbackend' = r.backend
             /\ vresult' = r.out
             /\ veffects' = r.eff
    /\ vpc' = "returned"
    /\ UNCHANGED <<vreq, svars, ovars>>

InitValidate ==
    /\ vpc = "idle"
    /\ vreq = NoRequest
    /\ venv = QuietEnv
    /\ vbackend = NoOutcome
    /\ vresult = NoOutcome
    /\ veffects = <<>>

NextValidate == SubmitValidate \/ ValidateTool

-----------------------------------------------------------------------------
(* Source adapters *)

\* consts/model.py ToolInfo: the fields that identify and route a tool, the
\* constructor parameters and the text of the input schema
ToolInfo(name, origin_name, source, class_name, usage, params, inputs) ==
    [name |-> name, origin_name |-> origin_name, source |-> source,
     class_name |-> class_name, usage |-> usage, params |-> params,
     inputs |-> inputs]

\* d[k] of a dict that has the key
Get(d, k) == d[CHOOSE i \in 1..Len(d) : d[i][1] = k][2]

\* get_local_tools: `param_name == "self" or param.default.exclude`
Skipped(param) == param.name = "self" \/ param.exclude

\* param.default.exclude of a default that is not a pydantic Field (a plain
\* value, or inspect.Parameter.empty) raises AttributeError
NotAField(param) == param.name # "self" /\ ~param.isField

\* variant: the default is attached to every entry
param_info_always_default(param) ==
    LET described == <<<<"type", Val("str", python_type_to_json_schema(param.annotation))>>,
                       <<"name", Val("str", param.name)>>,
                       <<"description", Val("str", param.description)>>>>
    IN Put(Put(described, "default", param.default), "optional", Val("bool", "True"))

\* get_local_tools, the dict built for one constructor parameter
param_info(param) ==
    LET described == <<<<"type", Val("str", python_type_to_json_schema(param.annotation))>>,
                       <<"name", Val("str", param.name)>>,
                       <<"description", Val("str", param.description)>>>>
    IN IF param.default = PydanticUndefined
       THEN Put(described, "optional", Val("bool", "False"))
       ELSE Put(Put(described, "default", param.default), "optional", Val("bool", "True"))

\* get_local_tools, the loop over sig.parameters.items()
RECURSIVE init_params_list(_)
init_params_list(sig) ==
    IF sig = <<>> THEN <<>>
    ELSE (IF Skipped(Head(sig)) THEN <<>> ELSE <<param_info(Head(sig))>>)
         \o init_params_list(Tail(sig))

\* get_local_tools, the body of the loop over the classes: the signature is
\* read first, then the fixed attributes
local_tool_info(tool_class) ==
    CASE \E i \in 1..Len(tool_class.sig) : NotAField(tool_class.sig[i]) ->
            [out |-> Exc("AttributeError", <<"object has no attribute 'exclude'">>),
             tools |-> <<>>]
      [] ~tool_class.hasName ->
            [out |-> Exc("AttributeError", <<"type object has no attribute 'name'">>),
             tools |-> <<>>]
      [] OTHER ->
            [out |-> Ok(<<>>),
             tools |-> <<ToolInfo(tool_class.name, tool_class.name, "local", tool_class.cls,
                                  NoneStr, init_params_list(tool_class.sig),
                                  json_dumps(tool_class.inputs))>>]

\* every class of the package is introspected in turn; nothing catches what
\* one of them raises, so the list built so far is lost with it
RECURSIVE get_local_tools(_)
get_local_tools(classes) ==
    IF classes = <<>> THEN [out |-> Ok(<<>>), tools |-> <<>>]
    ELSE LET r == local_tool_info(Head(classes))
             later == get_local_tools(Tail(classes))
         IN CASE r.out.kind # "ok" -> r
              [] later.out.kind # "ok" -> later
              [] OTHER -> [out |-> Ok(<<>>), tools |-> r.tools \o later.tools]

\* _build_tool_info_from_langchain: an argument without a description gets
\* "see the description"
RECURSIVE DescribeArgs(_)
DescribeArgs(inputs) ==
    IF inputs = <<>> THEN <<>>
    ELSE LET key == Head(inputs)[1]
             value == Head(inputs)[2]
         IN <<<<key, IF HasKey(value, "description") THEN value
                     ELSE Put(value, "description", Val("str", "see the description"))>>>>
            \o DescribeArgs(Tail(inputs))

\* tool_name = getattr(obj, "name", target_callable.__name__)
_build_tool_info_from_langchain(obj) ==
    IF obj.hasName
    THEN [out |-> Ok(<<>>),
          tools |-> <<ToolInfo(obj.name, obj.name, "langchain", obj.name, NoneStr,
                               <<>>, json_dumps(DescribeArgs(obj.args)))>>]
    ELSE [out |-> Exc("AttributeError", <<"object has no attribute __name__">>),
          tools |-> <<>>]

\* variant: the loop has no try block, the first failing object ends it
RECURSIVE get_langchain_tools_unguarded(_)
get_langchain_tools_unguarded(discovered_tools) ==
    IF discovered_tools = <<>> THEN <<>>
    ELSE LET r == _build_tool_info_from_langchain(Head(discovered_tools))
         IN IF r.out.kind = "ok"
            THEN r.tools \o get_langchain_tools_unguarded(Tail(discovered_tools))
            ELSE <<>>

RECURSIVE get_langchain_tools(_)
get_langchain_tools(discovered_tools) ==
    IF discovered_tools = <<>> THEN <<>>
    ELSE LET r == _build_tool_info_from_langchain(Head(discovered_tools))
         IN (IF r.out.kind = "ok" THEN r.tools ELSE <<>>)
            \o get_langchain_tools(Tail(discovered_tools))

\* a tool as a remote server lists it: its name and its inputSchema, a dict
RemoteTool(name, inputSchema) == [name |-> name, inputSchema |-> inputSchema]

\* tools a remote server lists: r-2 declares param1 with neither description
\* nor type, r3 has an inputSchema without a "properties" entry
RemoteTools == {
    RemoteTool("r-2", <<<<"type", Val("str", "object")>>,
                        <<"properties", <<<<"param1", <<>>>>>>>>>>),
    RemoteTool("r3",  <<<<"type", Val("str", "object")>>>>) }

\* mcpadapt _sanitize_function_name: characters outside [A-Za-z0-9_] become "_"
_sanitize_function_name(name) == IF name = "r-2" THEN "r_2" ELSE name

\* what one session does: the client fails to connect, list_tools fails, or
\* list_tools returns a list
ServerAnswers ==
    {[net |-> n, tools |-> <<>>] : n \in {"connect_raises", "list_raises"}}
    \cup {[net |-> "ok", tools |-> t] : t \in SeqsUpTo(RemoteTools, MaxRemoteTools)}

\* jsonref.replace_refs on the properties: a property that is a reference
\* {"$ref": "#/$defs/<name>"} stands for the definition of that name
RECURSIVE Dereferenced(_, _)
Dereferenced(properties, defs) ==
    IF properties = <<>> THEN <<>>
    ELSE LET k == Head(properties)[1]
             v == Head(properties)[2]
         IN <<<<k, IF HasKey(v, "$ref") THEN Get(defs, Get(v, "$ref").val) ELSE v>>>>
            \o Dereferenced(Tail(properties), defs)

\* {k: v for k, v in jsonref.replace_refs(tool.inputSchema).items() if k != "$defs"}
input_schema(inputSchema) ==
    LET Kept(entry) == entry[1] # "$defs"
        defs == IF HasKey(inputSchema, "$defs") THEN Get(inputSchema, "$defs") ELSE <<>>
        Flat(entry) == IF entry[1] = "properties"
                       THEN <<entry[1], Dereferenced(entry[2], defs)>>
                       ELSE entry
        kept == SelectSeq(inputSchema, Kept)
    IN [i \in 1..Len(kept) |-> Flat(kept[i])]

\* variant: only the description is supplied
Backfilled_description_only(v) ==
    IF HasKey(v, "description") THEN v
    ELSE Put(v, "description", Val("str", "see tool description"))

\* the two `if ... not in v` assignments for one property
Backfilled(v) ==
    LET described == IF HasKey(v, "description") THEN v
                     ELSE Put(v, "description", Val("str", "see tool description"))
    IN IF HasKey(v, "type") THEN described
       ELSE Put(described, "type", Val("str", "string"))

\* the loop over input_schema["properties"].items()
RECURSIVE BackfillAll(_)
BackfillAll(properties) ==
    IF properties = <<>> THEN <<>>
    ELSE <<<<Head(properties)[1], Backfilled(Head(properties)[2])>>>>
         \o BackfillAll(Tail(properties))

\* variant: class_name is given the name the server listed
remote_tool_info_listed_class(mcp_server_name, tool) ==
    LET schema == input_schema(tool.inputSchema)
        sanitized_tool_name == _sanitize_function_name(tool.name)
    IN IF ~HasKey(schema, "properties")
       THEN [out |-> Exc("KeyError", <<"properties">>), tools |-> <<>>]
       ELSE [out |-> Ok(<<>>),
             tools |-> <<ToolInfo(sanitized_tool_name, tool.name, "mcp",
                                  tool.name, mcp_server_name, <<>>,
                                  str_dict(BackfillAll(Get(schema, "properties"))))>>]

\* get_tool_from_remote_mcp_server, the body of the loop over the tools:
\* input_schema["properties"] of a schema without the key raises KeyError
remote_tool_info(mcp_server_name, tool) ==
    LET schema == input_schema(tool.inputSchema)
        sanitized_tool_name == _sanitize_function_name(tool.name)
    IN IF ~HasKey(schema, "properties")
       THEN [out |-> Exc("KeyError", <<"properties">>), tools |-> <<>>]
       ELSE [out |-> Ok(<<>>),
             tools |-> <<ToolInfo(sanitized_tool_name, tool.name, "mcp",
                                  sanitized_tool_name, mcp_server_name, <<>>,
                                  str_dict(BackfillAll(Get(schema, "properties"))))>>]

\* the loop over the tools: what one tool raises ends the loop
RECURSIVE RemoteInfos(_, _)
RemoteInfos(mcp_server_name, tools) ==
    IF tools = <<>> THEN [out |-> Ok(<<>>), tools |-> <<>>]
    ELSE LET r == remote_tool_info(mcp_server_name, Head(tools))
             later == RemoteInfos(mcp_server_name, Tail(tools))
         IN CASE r.out.kind # "ok" -> r
              [] later.out.kind # "ok" -> later
              [] OTHER -> [out |-> Ok(<<>>), tools |-> r.tools \o later.tools]

RemoteWrap(e) ==
    Exc("MCPConnectionError",
        <<"failed to get tool from remote MCP server, detail:">> \o Str(e))

\* the whole body runs in one try block: whatever is raised in it, by the
\* session or by one tool, leaves as MCPConnectionError
get_tool_from_remote_mcp_server(mcp_server_name, remote_mcp_server, answer) ==
    CASE answer.net = "connect_raises" ->
            [out |-> RemoteWrap(Exc("RuntimeError", <<"client failed to connect">>)),
             tools |-> <<>>]
      [] answer.net = "list_raises" ->
            [out |-> RemoteWrap(Exc("McpError", <<"list_tools failed">>)), tools |-> <<>>]
      [] OTHER ->
            LET r == RemoteInfos(mcp_server_name, answer.tools)
            IN IF r.out.kind = "ok" THEN r
               ELSE [out |-> RemoteWrap(r.out), tools |-> <<>>]

\* the servers a scan finds registered
ScanServerNames == {"srvA", "srvB"}

ScanRecordLists ==
    {l \in RecordLists : \A i \in 1..Len(l) : l[i].mcp_name \in ScanServerNames}

\* variant: only a record marked disconnected is left out
Queried_unless_false(record) == record.status # "False"

\* get_all_mcp_tools: `if record["status"]`
Queried(record) == record.status = "True"

\* index of the next record to query after position i, 0 when none is left
NextQueried(records, i) ==
    FirstIndex({j \in (i + 1)..Len(records) : Queried(records[j])})

\* variant: the except clause of the loop starts the list afresh
AfterRegistered_reset(gathered, r) ==
    IF r.out.kind = "ok"
    THEN [out |-> Ok(<<>>), tools |-> gathered \o r.tools]
    ELSE [out |-> Ok(<<>>), tools |-> <<>>]

\* variant: the loop has no try block
AfterRegistered_raise(gathered, r) ==
    IF r.out.kind = "ok"
    THEN [out |-> Ok(<<>>), tools |-> gathered \o r.tools]
    ELSE [out |-> r.out, tools |-> <<>>]

\* get_all_mcp_tools, loop body: a registered server's failure is logged
\* and the tools gathered so far are kept
AfterRegistered(gathered, r) ==
    IF r.out.kind = "ok"
    THEN [out |-> Ok(<<>>), tools |-> gathered \o r.tools]
    ELSE [out |-> Ok(<<>>), tools |-> gathered]

\* variant: the default server's failure is logged like the others
AfterDefault_swallow(gathered, r) ==
    IF r.out.kind = "ok"
    THEN [out |-> Ok(<<>>), tools |-> gathered \o r.tools]
    ELSE [out |-> Ok(<<>>), tools |-> gathered]

\* get_all_mcp_tools, after the loop: the default server is queried outside
\* any try block, so its failure leaves get_all_mcp_tools as an exception
AfterDefault(gathered, r) ==
    IF r.out.kind = "ok"
    THEN [out |-> Ok(<<>>), tools |-> gathered \o r.tools]
    ELSE [out |-> r.out, tools |-> <<>>]

-----------------------------------------------------------------------------
(* Catalog Reconciler *)

Identity(t) == <<t.name, t.source>>

Identities(tool_list) == {Identity(tool_list[i]) : i \in 1..Len(tool_list)}

\* a row of ag_tool_info_t: the serial primary key, the identity columns
\* and the availability flag
ToolRow(tool_id, id) ==
    [tool_id |-> tool_id, name |-> id[1], source |-> id[2], is_available |-> TRUE]

Matching(rows, id) == {r \in rows : <<r.name, r.source>> = id}

\* variant: every listed descriptor is inserted, available rows are not
\* looked up
RECURSIVE UpsertEach_insert_only(_, _)
UpsertEach_insert_only(rows, tool_list) ==
    IF tool_list = <<>> THEN rows
    ELSE LET id == Identity(Head(tool_list))
             old == {r \in Matching(rows, id) : ~r.is_available}
             next == IF old # {}
                     THEN (rows \ old) \cup {[r EXCEPT !.is_available = TRUE] : r \in old}
                     ELSE rows \cup {ToolRow(Cardinality(rows) + 1, id)}
         IN UpsertEach_insert_only(next, Tail(tool_list))

\* the pass over the list: a descriptor whose identity has a row refreshes
\* that row and makes it available; one without a row is inserted under the
\* next key. An identity listed twice meets its own row the second time.
RECURSIVE UpsertEach(_, _)
UpsertEach(rows, tool_list) ==
    IF tool_list = <<>> THEN rows
    ELSE LET id == Identity(Head(tool_list))
             old == Matching(rows, id)
             next == IF old # {}
                     THEN (rows \ old) \cup {[r EXCEPT !.is_available = TRUE] : r \in old}
                     ELSE rows \cup {ToolRow(Cardinality(rows) + 1, id)}
         IN UpsertEach(next, Tail(tool_list))

\* database.tool_db: rows matching a listed identity are refreshed and
\* available, the other rows are kept and marked unavailable, listed
\* identities without a row are inserted
update_tool_table_from_scan_tool_list(rows, tool_list) ==
    UpsertEach({[r EXCEPT !.is_available = FALSE] : r \in rows}, tool_list)

NoUpsert == [called |-> FALSE, tool_list |-> <<>>]

\* variant: the table is rebuilt from the list, rows not listed are dropped
FinishScan_rebuild(locals, plugins, mcp, rows) ==
    IF mcp.out.kind = "ok"
    THEN LET tool_list == locals \o mcp.tools \o plugins
         IN [out |-> Ok(<<>>),
             upsert |-> [called |-> TRUE, tool_list |-> tool_list],
             rows |-> {r \in update_tool_table_from_scan_tool_list(rows, tool_list) :
                         r.is_available}]
    ELSE [out |-> Exc("MCPConnectionError",
                      <<"failed to get all mcp tools, detail:">> \o Str(mcp.out)),
          upsert |-> NoUpsert,
          rows |-> rows]

\* variant: what was collected locally is written when the remote part fails
FinishScan_partial_write(locals, plugins, mcp, rows) ==
    IF mcp.out.kind = "ok"
    THEN LET tool_list == locals \o mcp.tools \o plugins
         IN [out |-> Ok(<<>>),
             upsert |-> [called |-> TRUE, tool_list |-> tool_list],
             rows |-> update_tool_table_from_scan_tool_list(rows, tool_list)]
    ELSE [out |-> Exc("MCPConnectionError",
                      <<"failed to get all mcp tools, detail:">> \o Str(mcp.out)),
          upsert |-> [called |-> TRUE, tool_list |-> locals \o plugins],
          rows |-> update_tool_table_from_scan_tool_list(rows, locals \o plugins)]

\* update_tool_list from the return of get_all_mcp_tools onwards
FinishScan(locals, plugins, mcp, rows) ==
    IF mcp.out.kind = "ok"
    THEN LET tool_list == locals \o mcp.tools \o plugins
         IN [out |-> Ok(<<>>),
             upsert |-> [called |-> TRUE, tool_list |-> tool_list],
             rows |-> update_tool_table_from_scan_tool_list(rows, tool_list)]
    ELSE [out |-> Exc("MCPConnectionError",
                      <<"failed to get all mcp tools, detail:">> \o Str(mcp.out)),
          upsert |-> NoUpsert,
          rows |-> rows]

Session(name, url, r) ==
    [name |-> name, url |-> url, ok |-> r.out.kind = "ok", tools |-> r.tools]

\* update_tool_list is entered and get_local_tools() runs; its exception
\* leaves update_tool_list as it is
StartScan ==
    /\ spc \in {"idle", "done"}
    /\ \E classes \in Registries :
          LET r == get_local_tools(classes)
          IN /\ local_tools' = r.tools
             /\ sresult' = IF r.out.kind = "ok" THEN NoOutcome ELSE r.out
             /\ spc' = IF r.out.kind = "ok" THEN "langchain" ELSE "done"
    /\ langchain_tools' = <<>>
    /\ mcp_info' = <<>>
    /\ sidx' = 0
    /\ tools_info' = <<>>
    /\ squeried' = <<>>
    /\ mcp_result' = NoOutcome
    /\ upsert_arg' = NoUpsert
    /\ UNCHANGED <<catalog, vvars, ovars>>

\* get_langchain_tools() runs
CollectLangchain ==
    /\ spc = "langchain"
    /\ \E discovered_tools \in Discoveries :
          langchain_tools' = get_langchain_tools(discovered_tools)
    /\ spc' = "records"
    /\ UNCHANGED <<local_tools, mcp_info, sidx, tools_info, squeried, mcp_result,
                   sresult, upsert_arg, catalog, vvars, ovars>>

\* get_all_mcp_tools reads the tenant's records and reaches its first await
ReadRecords ==
    /\ spc = "records"
    /\ \E records \in ScanRecordLists :
          /\ mcp_info' = records
          /\ sidx' = NextQueried(records, 0)
          /\ spc' = IF NextQueried(records, 0) = 0 THEN "default" ELSE "servers"
    /\ UNCHANGED <<local_tools, langchain_tools, tools_info, squeried, mcp_result,
                   sresult, upsert_arg, catalog, vvars, ovars>>

\* get_all_mcp_tools returns or raises and update_tool_list runs to its end
Finish(mcp) ==
    LET f == FinishScan(local_tools, langchain_tools, mcp, catalog)
    IN /\ mcp_result' = mcp.out
       /\ tools_info' = mcp.tools
       /\ sresult' = f.out
       /\ upsert_arg' = f.upsert
       /\ catalog' = f.rows
       /\ spc' = "done"
       /\ UNCHANGED sidx

\* the session to a registered server ends and the loop goes on
QueryRegistered ==
    /\ spc = "servers"
    /\ \E answer \in ServerAnswers :
          LET record == mcp_info[sidx]
              r == get_tool_from_remote_mcp_server(record.mcp_name, record.mcp_server, answer)
              g == AfterRegistered(tools_info, r)
          IN /\ squeried' = Append(squeried, Session(record.mcp_name, record.mcp_server, r))
             /\ IF g.out.kind = "ok"
                THEN /\ tools_info' = g.tools
                     /\ sidx' = NextQueried(mcp_info, sidx)
                     /\ spc' = IF NextQueried(mcp_info, sidx) = 0 THEN "default" ELSE "servers"
                     /\ UNCHANGED <<mcp_result, sresult, upsert_arg, catalog>>
                ELSE Finish(g)
    /\ UNCHANGED <<local_tools, langchain_tools, mcp_info, vvars, ovars>>

\* the session to the default server ends; update_tool_list writes or raises
QueryDefault ==
    /\ spc = "default"
    /\ \E answer \in ServerAnswers :
          LET r == get_tool_from_remote_mcp_server(DefaultToken, DefaultUrl, answer)
          IN /\ squeried' = Append(squeried, Session(DefaultToken, DefaultUrl, r))
             /\ Finish(AfterDefault(tools_info, r))
    /\ UNCHANGED <<local_tools, langchain_tools, mcp_info, vvars, ovars>>

\* no scan is running
NoScan ==
    /\ spc = "idle"
    /\ local_tools = <<>>
    /\ langchain_tools = <<>>
    /\ mcp_info = <<>>
    /\ sidx = 0
    /\ tools_info = <<>>
    /\ squeried = <<>>
    /\ mcp_result = NoOutcome
    /\ sresult = NoOutcome
    /\ upsert_arg = NoUpsert

InitScan ==
    /\ NoScan
    /\ catalog = {}

NextScan == StartScan \/ CollectLangchain \/ ReadRecords \/ QueryRegistered \/ QueryDefault


\* get_all_mcp_tools run to its end: `answers` holds what the session to
\* each record, were it opened, and then the one to the default server do
RECURSIVE get_all_mcp_tools(_, _, _)
get_all_mcp_tools(records, answers, gathered) ==
    IF records = <<>>
    THEN AfterDefault(gathered,
            get_tool_from_remote_mcp_server(DefaultToken, DefaultUrl, Head(answers)))
    ELSE LET record == Head(records)
         IN IF Queried(record)
            THEN LET g == AfterRegistered(gathered,
                            get_tool_from_remote_mcp_server(record.mcp_name,
                                record.mcp_server, Head(answers)))
                 IN IF g.out.kind = "ok"
                    THEN get_all_mcp_tools(Tail(records), Tail(answers), g.tools)
                    ELSE g
            ELSE get_all_mcp_tools(Tail(records), Tail(answers), gathered)

\* the records of a tenant that registered no server or srvA alone
StoreRecordLists ==
    {l \in ScanRecordLists : \A i \in 1..Len(l) : l[i].mcp_name = "srvA"}

\* what get_all_mcp_tools can hand to update_tool_list for such a tenant
McpOutcomes ==
    {get_all_mcp_tools(records, answers, <<>>) :
        records \in StoreRecordLists, answers \in [1..(MaxServers + 1) -> ServerAnswers]}

\* what get_local_tools and get_langchain_tools can hand to update_tool_list
LocalOutcomes == {get_local_tools(classes) : classes \in Registries}

PluginOutcomes == {get_langchain_tools(discovered_tools) : discovered_tools \in Discoveries}

\* update_tool_list from call to return, given what the adapters hand it
update_tool_list(l, plugins, mcp, rows) ==
    IF l.out.kind # "ok"
    THEN [out |-> l.out, upsert |-> NoUpsert, rows |-> rows]
    ELSE FinishScan(l.tools, plugins, mcp, rows)

Agents == {"agent1"}

\* the configurations an agent saves: the tool switched on with a parameter
\* value, or switched off with none
InstanceValues == {[params |-> {<<"p", "1">>}, enabled |-> TRUE],
                   [params |-> {},             enabled |-> FALSE]}

\* consts/model.py ToolInstanceInfoRequest, for a tool of the catalog
InstanceRequests(rows) ==
    {[tool_id |-> r.tool_id, agent_id |-> a, params |-> v.params, enabled |-> v.enabled] :
        r \in rows, a \in Agents, v \in InstanceValues}

\* database.tool_db: the instance of the (agent, tool) pair is created on
\* the first save and updated in place afterwards
create_or_update_tool_by_tool_info(rows, tool_info) ==
    LET old == {i \in rows : i.tool_id = tool_info.tool_id /\ i.agent_id = tool_info.agent_id}
    IN (rows \ old) \cup {tool_info}

\* update_tool_info_impl
update_tool_info_impl(rows, tool_info) ==
    create_or_update_tool_by_tool_info(rows, tool_info)

\* a scan of the tenant, from the call of update_tool_list to its return
ScanTenant ==
    /\ spc = "idle"
    /\ \E l \in LocalOutcomes, plugins \in PluginOutcomes, mcp \in McpOutcomes :
          LET f == update_tool_list(l, plugins, mcp, catalog)
          IN /\ sresult' = f.out
             /\ upsert_arg' = f.upsert
             /\ catalog' = f.rows
             /\ rescan' = (upsert_arg.called /\ f.upsert = upsert_arg)
    /\ UNCHANGED <<spc, local_tools, langchain_tools, mcp_info, sidx, tools_info,
                   squeried, mcp_result, instances, vvars, uvars, avars, hvars, fvars, tvars>>

\* a configuration of a catalog tool is saved for an agent
SaveInstance ==
    /\ spc = "idle"
    /\ \E tool_info \in InstanceRequests(catalog) :
          instances' = update_tool_info_impl(instances, tool_info)
    /\ UNCHANGED <<svars, rescan, vvars, uvars, avars, hvars, fvars, tvars>>

InitStore ==
    /\ instances = {}
    /\ rescan = FALSE

NextCatalog == ScanTenant \/ SaveInstance


-----------------------------------------------------------------------------
(* Startup scan of every tenant *)

MaxTenants == 2     \* most tenants get_all_tenant_ids returns

Tenants == {"T1", "T2"}

\* database.user_tenant_db: the ids of the tenants, each once
TenantLists ==
    {l \in SeqsUpTo(Tenants, MaxTenants) : \A i, j \in 1..Len(l) : l[i] = l[j] => i = j}

\* get_all_tenant_ids() returns a list or fails
TenantAnswers ==
    {[out |-> Ok(<<>>), ids |-> l] : l \in TenantLists}
    \cup {[out |-> Exc("Exception", <<"Database connection failed">>), ids |-> <<>>]}

NoTask == [pc |-> "none", local_tools |-> <<>>, langchain_tools |-> <<>>,
           mcp_info |-> <<>>, sidx |-> 0, tools_info |-> <<>>, out |-> NoOutcome]

Ended(out) == [NoTask EXCEPT !.pc = IF out.kind = "ok" THEN "returned" ELSE "raised",
                             !.out = out]

Suspended(task) == task.pc \in {"servers", "default"}

\* update_tool_list from its call to its first await
start_task(l, plugins, records) ==
    IF l.out.kind # "ok"
    THEN Ended(l.out)
    ELSE [pc |-> IF NextQueried(records, 0) = 0 THEN "default" ELSE "servers",
          local_tools |-> l.tools, langchain_tools |-> plugins, mcp_info |-> records,
          sidx |-> NextQueried(records, 0), tools_info |-> <<>>, out |-> NoOutcome]

\* update_tool_list resumed when the session it awaits ends, up to the next
\* await or to its end
resume_task(task, answer, rows) ==
    IF task.pc = "servers"
    THEN LET record == task.mcp_info[task.sidx]
             g == AfterRegistered(task.tools_info,
                    get_tool_from_remote_mcp_server(record.mcp_name, record.mcp_server, answer))
             next == NextQueried(task.mcp_info, task.sidx)
         IN IF g.out.kind = "ok"
            THEN [task |-> [task EXCEPT !.tools_info = g.tools, !.sidx = next,
                                        !.pc = IF next = 0 THEN "default" ELSE "servers"],
                  rows |-> rows]
            ELSE LET f == FinishScan(task.local_tools, task.langchain_tools, g, rows)
                 IN [task |-> Ended(f.out), rows |-> f.rows]
    ELSE LET g == AfterDefault(task.tools_info,
                    get_tool_from_remote_mcp_server(DefaultToken, DefaultUrl, answer))
             f == FinishScan(task.local_tools, task.langchain_tools, g, rows)
         IN [task |-> Ended(f.out), rows |-> f.rows]

\* variant: the wait is given up but the task is left to run
cancel_detached(task) == task

\* asyncio.wait_for on expiry: the task is cancelled at its await; the
\* CancelledError passes every `except Exception` and ends the task
cancel(task) == [NoTask EXCEPT !.pc = "cancelled"]

Counters(total, successful, failed, go) ==
    [total_tools |-> total, successful_tenants |-> successful,
     failed_tenants |-> failed, upc |-> go]

TimeoutMarker(tenant_id) == <<tenant_id, "(timeout)">>

ErrorMarker(tenant_id, e) == <<tenant_id, "(error:">> \o Str(e) \o <<")">>

\* variant: the loop body has no try block around the wait
after_wait_unguarded(st, tenant_id, out, count) ==
    IF out.kind = "ok"
    THEN Counters(st.total_tools + count, st.successful_tenants + 1, st.failed_tenants, "loop")
    ELSE Counters(st.total_tools, st.successful_tenants, st.failed_tenants, "raised")

\* variant: a timed-out tenant is counted as successful too, and a failed
\* one adds its rows to the total
after_wait_miscounted(st, tenant_id, out, count) ==
    CASE out.kind = "ok" ->
            Counters(st.total_tools + count, st.successful_tenants + 1, st.failed_tenants, "loop")
      [] out.kind = "TimeoutError" ->
            Counters(st.total_tools, st.successful_tenants + 1,
                     Append(st.failed_tenants, TimeoutMarker(tenant_id)), "loop")
      [] OTHER ->
            Counters(st.total_tools + count, st.successful_tenants,
                     Append(st.failed_tenants, ErrorMarker(tenant_id, out)), "loop")

\* the loop body after wait_for: `out` is what wait_for returned or raised,
\* with query_all_tools' failure taking the place of a return; `count` is
\* len(query_all_tools(tenant_id))
after_wait(st, tenant_id, out, count) ==
    CASE out.kind = "ok" ->
            Counters(st.total_tools + count, st.successful_tenants + 1, st.failed_tenants, "loop")
      [] out.kind = "TimeoutError" ->
            Counters(st.total_tools, st.successful_tenants,
                     Append(st.failed_tenants, TimeoutMarker(tenant_id)), "loop")
      [] OTHER ->
            Counters(st.total_tools, st.successful_tenants,
                     Append(st.failed_tenants, ErrorMarker(tenant_id, out)), "loop")

CountersNow == Counters(total_tools, successful_tenants, failed_tenants, upc)

SetCounters(st) ==
    /\ total_tools' = st.total_tools
    /\ successful_tenants' = st.successful_tenants
    /\ failed_tenants' = st.failed_tenants
    /\ upc' = st.upc

\* initialize_tools_on_startup is called and reads the tenants
Enumerate ==
    /\ upc = "idle"
    /\ \E a \in TenantAnswers :
          /\ tenant_ids' = a.ids
          /\ upc' = CASE a.out.kind # "ok" -> "raised"
                      [] a.ids = <<>>      -> "finished"
                      [] OTHER             -> "loop"
    /\ UNCHANGED <<tidx, tasks, attempts, tenant_rows, total_tools,
                   successful_tenants, failed_tenants, vvars, svars, cvars, avars, hvars, fvars, tvars>>

\* the loop takes the next tenant: wait_for starts update_tool_list, which
\* runs to its first await or to the exception of get_local_tools
BeginTenant ==
    /\ upc = "loop"
    /\ tidx < Len(tenant_ids)
    /\ tidx' = tidx + 1
    /\ \E l \in LocalOutcomes, plugins \in PluginOutcomes, records \in StoreRecordLists :
          tasks' = [tasks EXCEPT ![tenant_ids[tidx + 1]] = start_task(l, plugins, records)]
    /\ attempts' = Append(attempts, tenant_ids[tidx + 1])
    /\ upc' = "waiting"
    /\ UNCHANGED <<tenant_ids, tenant_rows, total_tools, successful_tenants,
                   failed_tenants, vvars, svars, cvars, avars, hvars, fvars, tvars>>

\* a session awaited by a task ends and the task runs on
TaskStep ==
    /\ \E t \in Tenants, answer \in ServerAnswers :
          /\ Suspended(tasks[t])
          /\ LET r == resume_task(tasks[t], answer, tenant_rows[t])
             IN /\ tasks' = [tasks EXCEPT ![t] = r.task]
                /\ tenant_rows' = [tenant_rows EXCEPT ![t] = r.rows]
    /\ UNCHANGED <<upc, tenant_ids, tidx, attempts, total_tools, successful_tenants,
                   failed_tenants, vvars, svars, cvars, avars, hvars, fvars, tvars>>

\* the 60 seconds of wait_for pass while the task is still suspended
TenantTimeout ==
    /\ upc = "waiting"
    /\ Suspended(tasks[tenant_ids[tidx]])
    /\ tasks' = [tasks EXCEPT ![tenant_ids[tidx]] = cancel(tasks[tenant_ids[tidx]])]
    /\ SetCounters(after_wait(CountersNow, tenant_ids[tidx],
                              Exc("TimeoutError", <<>>), 0))
    /\ UNCHANGED <<tenant_ids, tidx, attempts, tenant_rows, vvars, svars, cvars, avars, hvars, fvars, tvars>>

\* wait_for hands over what the task returned or raised; after a return
\* the tenant's rows are counted
TenantDone ==
    /\ upc = "waiting"
    /\ tasks[tenant_ids[tidx]].pc \in {"returned", "raised"}
    /\ \E query \in {Ok(<<>>), Exc("Exception", <<"Database connection failed">>)} :
          LET out == tasks[tenant_ids[tidx]].out
          IN SetCounters(after_wait(CountersNow, tenant_ids[tidx],
                                    IF out.kind = "ok" THEN query ELSE out,
                                    Cardinality(tenant_rows[tenant_ids[tidx]])))
    /\ UNCHANGED <<tenant_ids, tidx, tasks, attempts, tenant_rows, vvars, svars, cvars, avars, hvars, fvars, tvars>>

\* the loop is over and the summary is logged
FinishLoop ==
    /\ upc = "loop"
    /\ tidx = Len(tenant_ids)
    /\ upc' = "finished"
    /\ UNCHANGED <<tenant_ids, tidx, tasks, attempts, tenant_rows, total_tools,
                   successful_tenants, failed_tenants, vvars, svars, cvars, avars, hvars, fvars, tvars>>

\* rows a tenant's table may hold when the server starts
StartRows == {{}, {[ToolRow(1, <<"t1", "local">>) EXCEPT !.is_available = FALSE]}}

InitIdle ==
    /\ upc = "idle"
    /\ tenant_ids = <<>>
    /\ tidx = 0
    /\ tasks = [t \in Tenants |-> NoTask]
    /\ attempts = <<>>
    /\ total_tools = 0
    /\ successful_tenants = 0
    /\ failed_tenants = <<>>

InitStartup ==
    /\ InitIdle
    /\ tenant_rows = [t \in Tenants |-> {}]

NextStartup ==
    Enumerate \/ BeginTenant \/ TaskStep \/ TenantTimeout \/ TenantDone \/ FinishLoop

-----------------------------------------------------------------------------
(* The adapters on their own *)

MaxListed == 2      \* most items one adapter run discovers

\* exa_search_tool.py: a required string, a boolean that defaults to True
\* and the excluded observer
BetaTool ==
    ToolClass("BetaTool", TRUE, "t3",
        <<SelfParam,
          FieldParam("exa_api_key", "str", "EXA API key", PydanticUndefined, FALSE),
          ObserverParam,
          FieldParam("image_filter", "bool", "Whether to filter images", Val("bool", "True"), FALSE)>>,
        <<<<"query", <<<<"type", Val("str", "string")>>,
                       <<"description", Val("str", "The search query")>>>>>>>>)

\* a constructor parameter whose default is a plain value, not a Field
DeltaTool ==
    ToolClass("DeltaTool", TRUE, "t4",
        <<SelfParam, Param("size", "int", FALSE, "", Val("int", "5"), FALSE)>>,
        <<>>)

\* an integer default, an unannotated parameter defaulting to None, a
\* required list; the tool takes no input
EpsilonTool ==
    ToolClass("EpsilonTool", TRUE, "t5",
        <<SelfParam,
          FieldParam("top_k", "int", "how many", Val("int", "5"), FALSE),
          FieldParam("mode", "empty", "the mode", PyNone, FALSE),
          FieldParam("names", "List", "the names", PydanticUndefined, FALSE)>>,
        <<>>)

\* the package in dir() order
PackageOrder ==
    <<ClassOrder[1], ClassOrder[2], BetaTool, DeltaTool, EpsilonTool, ClassOrder[3]>>

Packages ==
    {LET Member(c) == c \in S IN SelectSeq(PackageOrder, Member) :
        S \in {T \in SUBSET {PackageOrder[i] : i \in 1..Len(PackageOrder)} :
                 Cardinality(T) <= MaxListed}}

\* plugin objects: plugB declares one described and one undescribed
\* argument, plugD takes none
PluginModules ==
    PluginObjects \cup {
        [obj |-> "plugB", hasName |-> TRUE, name |-> "t2", file |-> "b.py",
         args |-> <<<<"a", <<<<"type", Val("str", "integer")>>,
                             <<"description", Val("str", "the a")>>>>>>,
                    <<"b", <<<<"type", Val("str", "boolean")>>,
                             <<"default", Val("bool", "True")>>>>>>>>],
        [obj |-> "plugD", hasName |-> TRUE, name |-> "t4", file |-> "d.py", args |-> <<>>] }

\* discover_langchain_modules() returns each object once
Found ==
    {l \in SeqsUpTo(PluginModules, MaxListed) : \A i, j \in 1..Len(l) : l[i] = l[j] => i = j}

\* remote tools: r4 is fully described and carries a $defs section, r5
\* declares one property by reference and one with a type only, r6 declares
\* no property
ListedTools ==
    RemoteTools \cup {
        RemoteTool("r4", <<<<"$defs", <<<<"D", <<<<"type", Val("str", "integer")>>>>>>>>>>,
                           <<"properties", <<<<"a", <<<<"description", Val("str", "the a")>>,
                                                      <<"type", Val("str", "integer")>>>>>>>>>>,
                           <<"type", Val("str", "object")>>>>),
        RemoteTool("r5", <<<<"properties", <<<<"d", <<<<"$ref", Val("str", "D")>>>>>>,
                                             <<"flag", <<<<"type", Val("str", "boolean")>>,
                                                         <<"default", Val("bool", "True")>>>>>>>>>>,
                           <<"$defs", <<<<"D", <<<<"type", Val("str", "integer")>>>>>>>>>>>>),
        RemoteTool("r6", <<<<"type", Val("str", "object")>>, <<"properties", <<>>>>>>) }

Listings == SeqsUpTo(ListedTools, MaxListed)

AdapterServers == {"srvA", DefaultToken}

NoItems == [adapter |-> "none", items |-> <<>>, server |-> NoneStr]

NoRun == [out |-> NoOutcome, tools |-> <<>>]

\* get_local_tools() is called on a package content
CallNative ==
    /\ apc \in {"idle", "returned"}
    /\ \E classes \in Packages :
          ain' = [adapter |-> "native", items |-> classes, server |-> NoneStr]
    /\ apc' = "called"
    /\ aout' = NoRun
    /\ UNCHANGED <<vvars, svars, cvars, uvars, hvars, fvars, tvars>>

\* get_langchain_tools() is called and discovery returns a list
CallPlugin ==
    /\ apc \in {"idle", "returned"}
    /\ \E discovered_tools \in Found :
          ain' = [adapter |-> "plugin", items |-> discovered_tools, server |-> NoneStr]
    /\ apc' = "called"
    /\ aout' = NoRun
    /\ UNCHANGED <<vvars, svars, cvars, uvars, hvars, fvars, tvars>>

\* get_tool_from_remote_mcp_server() is called and the server lists its tools
CallRemote ==
    /\ apc \in {"idle", "returned"}
    /\ \E tools \in Listings, mcp_server_name \in AdapterServers :
          ain' = [adapter |-> "remote", items |-> tools, server |-> mcp_server_name]
    /\ apc' = "called"
    /\ aout' = NoRun
    /\ UNCHANGED <<vvars, svars, cvars, uvars, hvars, fvars, tvars>>

\* the adapter called runs to its return or raise
RunAdapter ==
    /\ apc = "called"
    /\ aout' = CASE ain.adapter = "native" -> get_local_tools(ain.items)
                 [] ain.adapter = "plugin" ->
                        [out |-> Ok(<<>>), tools |-> get_langchain_tools(ain.items)]
                 [] OTHER ->
                        get_tool_from_remote_mcp_server(
                            ain.server,
                            IF ain.server = DefaultToken THEN DefaultUrl ELSE UrlOf(ain.server),
                            [net |-> "ok", tools |-> ain.items])
    /\ apc' = "returned"
    /\ UNCHANGED <<ain, vvars, svars, cvars, uvars, hvars, fvars, tvars>>

InitAdapters ==
    /\ apc = "idle"
    /\ ain = NoItems
    /\ aout = NoRun

NextAdapters == CallNative \/ CallPlugin \/ CallRemote \/ RunAdapter

-----------------------------------------------------------------------------
(* The validate endpoint *)

\* fastapi HTTPException(status_code, detail) and JSONResponse(status_code, content)
Response(status_code, body) == [status_code |-> status_code, body |-> body]

\* what get_current_user_id does: it returns the ids or raises
AuthOutcomes == {Ok(<<"user123", "tenant456">>),
                 Exc("Exception", <<"Auth error">>),
                 Exc("UnauthorizedError", <<"token expired">>)}

\* variant: a single except clause
Answer_collapse(e) ==
    IF e.kind = "ok" THEN Response(200, e.msg) ELSE Response(500, Str(e))

\* validate_tool: the return statement and the except clauses
Answer(e) ==
    CASE e.kind = "ok" -> Response(200, e.msg)
      [] e.kind = "MCPConnectionError" -> Response(503, Str(e))
      [] e.kind = "NotFoundException" -> Response(404, Str(e))
      [] OTHER -> Response(500, Str(e))

\* apps/tool_config_app.py validate_tool: validate_tool_impl is called only
\* when get_current_user_id returned
validate_tool(request, auth, env) ==
    IF auth.kind # "ok"
    THEN [impl |-> NoOutcome, resp |-> Answer(auth)]
    ELSE LET r == validate_tool_impl(request, env)
         IN [impl |-> r.out, resp |-> Answer(r.out)]

NoResponse == Response(0, <<>>)

\* a client posts a request
PostValidate ==
    /\ hpc \in {"idle", "responded"}
    /\ \E r \in Requests, auth \in AuthOutcomes :
          /\ hreq' = r
          /\ hauth' = auth
    /\ hpc' = "called"
    /\ himpl' = NoOutcome
    /\ hresp' = NoResponse
    /\ UNCHANGED <<vvars, svars, cvars, uvars, avars, fvars, tvars>>

\* the handler runs to its response
HandleValidate ==
    /\ hpc = "called"
    /\ \E env \in EnvsFor(hreq.source) :
          LET r == validate_tool(hreq, hauth, env)
          IN /\ himpl' = r.impl
             /\ hresp' = r.resp
    /\ hpc' = "responded"
    /\ UNCHANGED <<hreq, hauth, vvars, svars, cvars, uvars, avars, fvars, tvars>>

InitEndpoint ==
    /\ hpc = "idle"
    /\ hreq = NoRequest
    /\ hauth = NoOutcome
    /\ himpl = NoOutcome
    /\ hresp = NoResponse

NextEndpoint == PostValidate \/ HandleValidate

-----------------------------------------------------------------------------
(* The file tools *)

MaxDepth == 3       \* most components of an input path

\* a path is a string, a string is a sequence of characters
isabs(s) == s # <<>> /\ s[1] = "/"

\* os.path.join(a, b), a without a trailing slash
join(a, b) == IF isabs(b) THEN b ELSE a \o <<"/">> \o b

\* s.split("/")
RECURSIVE split(_)
split(s) ==
    IF \A i \in 1..Len(s) : s[i] # "/" THEN <<s>>
    ELSE LET i == CHOOSE k \in 1..Len(s) : s[k] = "/" /\ \A j \in 1..(k - 1) : s[j] # "/"
         IN <<SubSeq(s, 1, i - 1)>> \o split(SubSeq(s, i + 1, Len(s)))

\* "/".join(comps)
RECURSIVE SlashJoin(_)
SlashJoin(comps) ==
    IF comps = <<>> THEN <<>>
    ELSE Head(comps) \o (IF Len(comps) > 1 THEN <<"/">> ELSE <<>>) \o SlashJoin(Tail(comps))

\* posixpath.normpath, the loop over the components
RECURSIVE new_comps(_, _, _)
new_comps(comps, initial_slashes, done) ==
    IF comps = <<>> THEN done
    ELSE LET comp == Head(comps)
         IN CASE comp \in {<<>>, <<".">>} -> new_comps(Tail(comps), initial_slashes, done)
              [] \/ comp # <<".", ".">>
                 \/ (~initial_slashes /\ done = <<>>)
                 \/ (done # <<>> /\ done[Len(done)] = <<".", ".">>) ->
                    new_comps(Tail(comps), initial_slashes, Append(done, comp))
              [] done # <<>> ->
                    new_comps(Tail(comps), initial_slashes, SubSeq(done, 1, Len(done) - 1))
              [] OTHER -> new_comps(Tail(comps), initial_slashes, done)

\* posixpath.normpath for a path with at most one leading slash
normpath(s) ==
    IF s = <<>> THEN <<".">>
    ELSE LET path == (IF isabs(s) THEN <<"/">> ELSE <<>>)
                     \o SlashJoin(new_comps(split(s), isabs(s), <<>>))
         IN IF path = <<>> THEN <<".">> ELSE path

\* os.path.abspath of an absolute path
abspath(s) == normpath(s)

\* str.startswith
startswith(s, prefix) ==
    Len(prefix) <= Len(s) /\ \A i \in 1..Len(prefix) : s[i] = prefix[i]

FileTools == {"create_file", "read_file", "delete_file", "create_directory",
              "delete_directory", "list_directory", "move_item"}

\* self.init_path = os.path.abspath(init_path): the workspace is /w
init_path == <<"/", "w">>

OutsideWorkspace ==
    Exc("Exception", <<"Permission denied", "outside the allowed area">>)

\* variant: the workspace root passes like any path beneath it
_validate_path_root_allowed(tool, path) ==
    IF tool = "list_directory" /\ path \in {<<".">>, <<>>}
    THEN Ok(init_path)
    ELSE LET abs_path == normpath(abspath(IF isabs(path) THEN path
                                          ELSE join(init_path, path)))
         IN IF ~startswith(abs_path, init_path) THEN OutsideWorkspace
            ELSE Ok(abs_path)

\* _validate_path of the seven tools: list_directory answers "." and ""
\* at once, delete_directory refuses the workspace root
_validate_path(tool, path) ==
    IF tool = "list_directory" /\ path \in {<<".">>, <<>>}
    THEN Ok(init_path)
    ELSE LET abs_path == normpath(abspath(IF isabs(path) THEN path
                                          ELSE join(init_path, path)))
         IN CASE ~startswith(abs_path, init_path) -> OutsideWorkspace
              [] tool = "delete_directory" /\ abs_path = init_path ->
                    Exc("Exception", <<"Permission denied",
                                       "Cannot delete the workspace root directory">>)
              [] OTHER -> Ok(abs_path)

\* a file system is a set of nodes, the root directory among them
Node(path, kind) == [path |-> path, kind |-> kind]

exists(fs, path) == \E n \in fs : n.path = path

isdir(fs, path) == Node(path, "dir") \in fs

isfile(fs, path) == Node(path, "file") \in fs

\* os.path.dirname of a normalized absolute path
dirname(path) ==
    LET i == CHOOSE k \in 1..Len(path) : path[k] = "/" /\ \A j \in (k + 1)..Len(path) : path[j] # "/"
    IN IF i = 1 THEN <<"/">> ELSE SubSeq(path, 1, i - 1)

\* the path and the directories above it, the root excluded
Lineage(path) ==
    {SubSeq(path, 1, i) : i \in {k \in 1..Len(path) : k = Len(path) \/ path[k + 1] = "/"}}
        \ {<<>>}

Beneath(path, top) == startswith(path, top \o <<"/">>)

\* os.makedirs(path, exist_ok=True): a file in the way raises OSError
makedirs(fs, path) ==
    IF \E a \in Lineage(path) : isfile(fs, a)
    THEN [out |-> Exc("OSError", <<"File exists">>), fs |-> fs]
    ELSE [out |-> Ok(<<>>), fs |-> fs \cup {Node(a, "dir") : a \in Lineage(path)}]

\* the except clauses of forward: whatever is raised leaves as Exception
\* with a text that ends with the text of the cause
Failure(tool, e) ==
    Exc("Exception", <<IF e.kind = "OSError" THEN "OS error:" ELSE "Failed to", tool>> \o Str(e))

Raise(tool, text, fs) == [out |-> Failure(tool, Exc("Exception", <<text>>)), fs |-> fs]

\* forward of the tools that take one path, after the path was accepted
Apply(tool, abs_path, fs) ==
    CASE tool = "create_file" ->
            LET parents == IF exists(fs, dirname(abs_path)) THEN [out |-> Ok(<<>>), fs |-> fs]
                           ELSE makedirs(fs, dirname(abs_path))
            IN CASE parents.out.kind # "ok" ->
                        [out |-> Failure(tool, parents.out), fs |-> fs]
                 [] isdir(parents.fs, abs_path) \/ isfile(parents.fs, dirname(abs_path)) ->
                        [out |-> Failure(tool, Exc("OSError", <<"Is a directory">>)),
                         fs |-> parents.fs]
                 [] OTHER ->
                        [out |-> Ok(<<"success">>),
                         fs |-> parents.fs \cup {Node(abs_path, "file")}]
      [] tool \in {"read_file", "delete_file"} ->
            CASE ~exists(fs, abs_path) -> Raise(tool, "File does not exist", fs)
              [] ~isfile(fs, abs_path) -> Raise(tool, "Path is not a file", fs)
              [] OTHER ->
                    [out |-> Ok(<<"success">>),
                     fs |-> IF tool = "delete_file" THEN fs \ {Node(abs_path, "file")} ELSE fs]
      [] tool = "create_directory" ->
            IF exists(fs, abs_path) /\ ~isdir(fs, abs_path)
            THEN Raise(tool, "Path already exists but is not a directory", fs)
            ELSE LET made == makedirs(fs, abs_path)
                 IN IF made.out.kind # "ok"
                    THEN [out |-> Failure(tool, made.out), fs |-> fs]
                    ELSE [out |-> Ok(<<"success">>), fs |-> made.fs]
      [] OTHER ->
            CASE ~exists(fs, abs_path) -> Raise(tool, "Directory does not exist", fs)
              [] ~isdir(fs, abs_path) -> Raise(tool, "Path is not a directory", fs)
              [] tool = "delete_directory" ->
                    \* shutil.rmtree
                    [out |-> Ok(<<"success">>),
                     fs |-> {n \in fs : n.path # abs_path /\ ~Beneath(n.path, abs_path)}]
              [] OTHER -> [out |-> Ok(<<"success">>), fs |-> fs]

\* move_item.forward after both paths were accepted
Move(abs_source_path, abs_destination_path, fs) ==
    CASE ~exists(fs, abs_source_path) -> Raise("move_item", "Source does not exist", fs)
      [] exists(fs, abs_destination_path) ->
            Raise("move_item", "Destination already exists", fs)
      [] OTHER ->
            LET dest_parent == dirname(abs_destination_path)
                parents == IF exists(fs, dest_parent) THEN [out |-> Ok(<<>>), fs |-> fs]
                           ELSE makedirs(fs, dest_parent)
                Moved(n) == n.path = abs_source_path \/ Beneath(n.path, abs_source_path)
                Renamed(n) ==
                    Node(abs_destination_path
                            \o SubSeq(n.path, Len(abs_source_path) + 1, Len(n.path)), n.kind)
            IN CASE parents.out.kind # "ok" ->
                        [out |-> Failure("move_item", parents.out), fs |-> fs]
                 [] Beneath(abs_destination_path, abs_source_path) ->
                        \* shutil.Error: cannot move a directory into itself
                        [out |-> Failure("move_item", Exc("OSError", <<"into itself">>)),
                         fs |-> parents.fs]
                 [] isfile(parents.fs, dest_parent) ->
                        [out |-> Failure("move_item", Exc("OSError", <<"Not a directory">>)),
                         fs |-> parents.fs]
                 [] OTHER ->
                        [out |-> Ok(<<"success">>),
                         fs |-> {n \in parents.fs : ~Moved(n)}
                                \cup {Renamed(n) : n \in {m \in parents.fs : Moved(m)}}]

\* forward of a file tool: the empty-path check, _validate_path, the
\* operation; list_directory has no empty-path check
forward(tool, path, destination_path, fs) ==
    LET first == _validate_path(tool, path)
        second == _validate_path(tool, destination_path)
    IN CASE tool # "list_directory" /\ path = <<>> ->
                Raise(tool, "path cannot be empty", fs)
         [] tool = "move_item" /\ destination_path = <<>> ->
                Raise(tool, "Destination path cannot be empty", fs)
         [] first.kind # "ok" -> [out |-> Failure(tool, first), fs |-> fs]
         [] tool = "move_item" /\ second.kind # "ok" ->
                [out |-> Failure(tool, second), fs |-> fs]
         [] tool = "move_item" -> Move(first.msg, second.msg, fs)
         [] OTHER -> Apply(tool, first.msg, fs)

\* names a path is made of: the workspace's, a sibling's that begins with
\* it, a child's, and the two dot names
Components == {<<"w">>, <<"w", "2">>, <<"a">>, <<".">>, <<".", ".">>}

PathsOf(depth) ==
    {(IF absolute THEN <<"/">> ELSE <<>>) \o SlashJoin(comps) :
        absolute \in BOOLEAN, comps \in SeqsUpTo(Components, depth)}

\* the path argument, and the destination move_item takes besides it
PathInputs == PathsOf(MaxDepth)
DestinationInputs == PathsOf(MaxDepth - 2)

Root == Node(<<"/">>, "dir")
Workspace == Node(init_path, "dir")

\* file systems a call may find: the workspace empty or holding a file or
\* a directory, with or without a sibling directory /w2
FileSystems ==
    {{Root, Workspace} \cup inside \cup beside :
        inside \in {{}, {Node(<<"/", "w", "/", "a">>, "file")},
                        {Node(<<"/", "w", "/", "a">>, "dir")}},
        beside \in {{}, {Node(<<"/", "w", "2">>, "dir"),
                         Node(<<"/", "w", "2", "/", "a">>, "file")}}}

NoCall == [tool |-> "none", path |-> <<>>, destination_path |-> <<>>]

\* forward of a file tool is called on some file system
CallFileTool ==
    /\ fpc = "idle"
    /\ \E tool \in FileTools, path \in PathInputs :
          \E destination_path \in IF tool = "move_item" THEN DestinationInputs ELSE {<<>>} :
              fcall' = [tool |-> tool, path |-> path, destination_path |-> destination_path]
    /\ fpc' = "called"
    /\ UNCHANGED <<ffs, fwas, fout, vvars, svars, cvars, uvars, avars, hvars, tvars>>

\* forward runs to its return or raise
RunFileTool ==
    /\ fpc = "called"
    /\ LET r == forward(fcall.tool, fcall.path, fcall.destination_path, ffs)
       IN /\ fout' = r.out
          /\ ffs' = r.fs
    /\ fwas' = ffs
    /\ fpc' = "done"
    /\ UNCHANGED <<fcall, vvars, svars, cvars, uvars, avars, hvars, tvars>>

InitFiles ==
    /\ fpc = "idle"
    /\ fcall = NoCall
    /\ fout = NoOutcome
    /\ ffs = {Root, Workspace}
    /\ fwas = {Root, Workspace}

NextFiles == CallFileTool \/ RunFileTool

-----------------------------------------------------------------------------
(* Terminal tool: SSH sessions by name *)

MaxSessions == 3    \* most sessions one instance creates

SessionKeys == {"default", "s2"}

\* what the SSH server does to a connection attempt: a shell, a shell whose
\* transport is down by the time it is looked at, or a failure
CreateAnswers == {"alive", "dead", "raises"}

\* _create_session: the new session is the next entry of conn; 0 stands for
\* no session
_create_session(conn, answer) ==
    IF answer = "raises"
    THEN [out |-> Exc("Exception", <<"Connection failed">>), session |-> 0,
          conn |-> conn, log |-> <<<<"create", 0>>>>]
    ELSE [out |-> Ok(<<>>), session |-> Len(conn) + 1,
          conn |-> Append(conn, answer), log |-> <<<<"create", Len(conn) + 1>>>>]

\* the channel is not closed and its transport is active
_is_session_alive(conn, session) == session # 0 /\ conn[session] = "alive"

\* channel.close() and client.close()
_cleanup_session(conn, session) ==
    IF session = 0 THEN conn ELSE [conn EXCEPT ![session] = "closed"]

\* variant: a dead session is replaced without being cleaned up
_get_session_no_cleanup(sessions, conn, session_name, answers) ==
    LET absent == sessions[session_name] = 0
        first == IF absent
                 THEN _create_session(conn, answers[1])
                 ELSE [out |-> Ok(<<>>), session |-> sessions[session_name],
                       conn |-> conn, log |-> <<>>]
    IN IF first.out.kind # "ok"
       THEN [out |-> first.out, session |-> 0, sessions |-> sessions,
             conn |-> conn, log |-> first.log]
       ELSE LET stored == [sessions EXCEPT ![session_name] = first.session]
                check == first.log \o <<<<"is_alive", first.session>>>>
            IN IF _is_session_alive(first.conn, first.session)
               THEN [out |-> Ok(<<>>), session |-> first.session, sessions |-> stored,
                     conn |-> first.conn, log |-> check]
               ELSE LET second == _create_session(first.conn,
                                                  answers[IF absent THEN 2 ELSE 1])
                        log == check \o second.log
                    IN IF second.out.kind # "ok"
                       THEN [out |-> second.out, session |-> 0, sessions |-> stored,
                             conn |-> first.conn, log |-> log]
                       ELSE [out |-> Ok(<<>>), session |-> second.session,
                             sessions |-> [stored EXCEPT ![session_name] = second.session],
                             conn |-> second.conn, log |-> log]

\* `answers` are the server's answers to the connection attempts of the
\* call, in order
_get_session(sessions, conn, session_name, answers) ==
    LET absent == sessions[session_name] = 0
        first == IF absent
                 THEN _create_session(conn, answers[1])
                 ELSE [out |-> Ok(<<>>), session |-> sessions[session_name],
                       conn |-> conn, log |-> <<>>]
    IN IF first.out.kind # "ok"
       THEN [out |-> first.out, session |-> 0, sessions |-> sessions,
             conn |-> conn, log |-> first.log]
       ELSE LET stored == [sessions EXCEPT ![session_name] = first.session]
                check == first.log \o <<<<"is_alive", first.session>>>>
            IN IF _is_session_alive(first.conn, first.session)
               THEN [out |-> Ok(<<>>), session |-> first.session, sessions |-> stored,
                     conn |-> first.conn, log |-> check]
               ELSE LET cleaned == _cleanup_session(first.conn, first.session)
                        second == _create_session(cleaned,
                                                  answers[IF absent THEN 2 ELSE 1])
                        log == check \o <<<<"close", first.session>>>> \o second.log
                    IN IF second.out.kind # "ok"
                       THEN [out |-> second.out, session |-> 0, sessions |-> stored,
                             conn |-> cleaned, log |-> log]
                       ELSE [out |-> Ok(<<>>), session |-> second.session,
                             sessions |-> [stored EXCEPT ![session_name] = second.session],
                             conn |-> second.conn, log |-> log]

\* _execute_command never raises: a failing send becomes the output text
_execute_command(conn, session, command, send) ==
    IF conn[session] # "alive" \/ send = "raises"
    THEN <<"Error executing command:", "Socket is closed">>
    ELSE <<"output of", command>>

\* json.dumps of the result dict: its keys and the text under "output" or
\* "error"
JsonResult(keys, text) == [kind |-> "returned", keys |-> keys, text |-> text]

NoResult == [kind |-> "none", keys |-> {}, text |-> <<>>]

\* TerminalTool.forward
TerminalTool_forward(sessions, conn, command, session_name, answers, send) ==
    LET g == _get_session(sessions, conn, session_name, answers)
    IN IF g.out.kind = "ok"
       THEN [out |-> JsonResult({"command", "session_name", "output", "timestamp"},
                                _execute_command(g.conn, g.session, command, send)),
             sessions |-> g.sessions, conn |-> g.conn,
             log |-> g.log \o <<<<"execute", g.session>>>>]
       ELSE [out |-> JsonResult({"command", "session_name", "error", "timestamp"},
                                Str(g.out)),
             sessions |-> g.sessions, conn |-> g.conn, log |-> g.log]

NoTerminalCall == [command |-> "", session_name |-> ""]

\* forward is called
CallTerminal ==
    /\ tpc \in {"idle", "returned"}
    /\ \E session_name \in SessionKeys :
          tcall' = [command |-> "ls", session_name |-> session_name]
    /\ tpc' = "called"
    /\ tlog' = <<>>
    /\ tout' = NoResult
    /\ UNCHANGED <<_sessions, tconn, vvars, svars, cvars, uvars, avars, hvars, fvars>>

\* forward runs to its return
RunTerminal ==
    /\ tpc = "called"
    /\ \E answers \in [1..2 -> CreateAnswers], send \in {"ok", "raises"} :
          LET r == TerminalTool_forward(_sessions, tconn, tcall.command,
                                        tcall.session_name, answers, send)
          IN /\ Len(r.conn) <= MaxSessions
             /\ _sessions' = r.sessions
             /\ tconn' = r.conn
             /\ tlog' = r.log
             /\ tout' = r.out
    /\ tpc' = "returned"
    /\ UNCHANGED <<tcall, vvars, svars, cvars, uvars, avars, hvars, fvars>>

\* between calls the server or the network ends a session
SessionDies ==
    /\ tpc # "called"
    /\ \E session \in 1..Len(tconn) :
          /\ tconn[session] = "alive"
          /\ tconn' = [tconn EXCEPT ![session] = "dead"]
    /\ UNCHANGED <<tpc, tcall, _sessions, tlog, tout,
                   vvars, svars, cvars, uvars, avars, hvars, fvars>>

InitTerminal ==
    /\ tpc = "idle"
    /\ tcall = NoTerminalCall
    /\ _sessions = [n \in SessionKeys |-> 0]
    /\ tconn = <<>>
    /\ tlog = <<>>
    /\ tout = NoResult

NextTerminal == CallTerminal \/ RunTerminal \/ SessionDies

-----------------------------------------------------------------------------
(* Specifications *)

Init == InitValidate /\ InitScan /\ InitStore /\ InitStartup /\ InitAdapters /\ InitEndpoint /\ InitFiles /\ InitTerminal

\* validate requests alone
SpecValidate == Init /\ [][NextValidate]_vars

\* scans of one tenant alone
SpecScan == Init /\ [][NextScan]_vars

\* whole scans of one tenant, one after the other
SpecRescan == Init /\ [][ScanTenant]_vars

\* whole scans of one tenant and saves of tool instances
SpecCatalog == Init /\ [][NextCatalog]_vars

\* the server starts over tables that earlier runs may have filled
InitServer ==
    /\ InitValidate /\ InitScan /\ InitStore /\ InitIdle /\ InitAdapters /\ InitEndpoint /\ InitFiles /\ InitTerminal
    /\ tenant_rows \in [Tenants -> StartRows]

\* validate requests to a server whose tables may hold rows already
InitServing ==
    /\ InitValidate /\ NoScan /\ InitStartup /\ InitAdapters /\ InitEndpoint /\ InitFiles /\ InitTerminal
    /\ rescan = FALSE
    /\ catalog \in StartRows
    /\ instances \in {{}} \cup {{tool_info} : tool_info \in InstanceRequests(catalog)}

SpecServing == InitServing /\ [][NextValidate]_vars

\* one call of a file tool on a file system it may find
InitWorkspace ==
    /\ InitValidate /\ InitScan /\ InitStore /\ InitStartup /\ InitAdapters /\ InitEndpoint
    /\ InitTerminal
    /\ fpc = "idle"
    /\ fcall = NoCall
    /\ fout = NoOutcome
    /\ ffs \in FileSystems
    /\ fwas = ffs

SpecFiles == InitWorkspace /\ [][NextFiles]_vars

\* requests to the validate endpoint
SpecEndpoint == Init /\ [][NextEndpoint]_vars

\* one adapter at a time, on what it discovers
SpecAdapters == Init /\ [][NextAdapters]_vars

\* calls of one terminal tool, and sessions ending between them
SpecTerminal == Init /\ [][NextTerminal]_vars

\* startup: the event loop runs whatever can run, a session ends or the
\* wait expires
SpecStartup == InitServer /\ [][NextStartup]_vars /\ WF_vars(NextStartup)

-----------------------------------------------------------------------------
(* Properties of the Dispatch Router *)

Returned == vpc = "returned"

Ops(effects) == {effects[i].op : i \in 1..Len(effects)}

RegistryHas(name) ==
    \E i \in 1..Len(venv.classes) :
        venv.classes[i].hasName /\ venv.classes[i].name = name

DiscoveryHas(name) ==
    \E i \in 1..Len(venv.plugins) :
        venv.plugins[i].hasName /\ venv.plugins[i].name = name

Registered(name) ==
    \E i \in 1..Len(venv.records) : venv.records[i].mcp_name = name

NetworkOps == {"client_open", "is_connected", "call_tool", "client_close"}

\* C1 (as claimed): a LOCAL validate request for name X ends in NotFound for
\* the caller exactly when no class of the native registry is named X.
C1_LocalNotFoundIffAbsent ==
    (Returned /\ vreq.source = "local")
        => (vresult.kind = "NotFoundException" <=> ~RegistryHas(vreq.name))

C3_UnknownServerNotFoundBeforeNetwork ==
    (Returned /\ vreq.source = "mcp" /\ vreq.usage # DefaultToken
        /\ ~Registered(vreq.usage))
        => /\ vresult.kind = "NotFoundException"
           /\ Ops(veffects) \cap NetworkOps = {}

\* an unknown server name was looked up while other servers are registered
C3_Witness ==
    /\ Returned
    /\ vreq.source = "mcp"
    /\ vreq.usage = "srvA"
    /\ venv.records # <<>>
    /\ ~Registered("srvA")
    /\ veffects = <<Eff("get_mcp_server", "srvA", {})>>

\* C4: an MCP validate request whose usage is the default-server token
\* contacts the implicit default server URL only and never consults the
\* tenant's registered servers, also when one of them carries that name.
C4_DefaultTokenTargetsDefaultServer ==
    (Returned /\ vreq.source = "mcp" /\ vreq.usage = DefaultToken)
        => /\ "get_mcp_server" \notin Ops(veffects)
           /\ "client_open" \in Ops(veffects)
           /\ \A i \in 1..Len(veffects) :
                veffects[i].op \in {"client_open", "is_connected", "client_close"}
                    => veffects[i].arg = DefaultUrl

\* the default server was called while a server named "nexent" is registered
C4_Witness ==
    /\ Returned
    /\ vreq.source = "mcp"
    /\ vreq.usage = DefaultToken
    /\ Registered(DefaultToken)
    /\ "call_tool" \in Ops(veffects)

\* C5 (as claimed): a LANGCHAIN validate request whose name matches no
\* discovered object ends in NotFound for the caller, and nothing is invoked.
C5_LangchainAbsentIsNotFound ==
    (Returned /\ vreq.source = "langchain" /\ ~DiscoveryHas(vreq.name))
        => /\ vresult.kind = "NotFoundException"
           /\ "invoke" \notin Ops(veffects)

-----------------------------------------------------------------------------
(* Properties of the Catalog Reconciler *)

ScanDone == spc = "done"

Range(s) == {s[i] : i \in 1..Len(s)}

\* the sessions to registered servers, the one to the default server excluded
RegisteredSessions(sessions) ==
    {i \in 1..Len(sessions) : sessions[i].url # DefaultUrl}

DefaultSucceeded(sessions) ==
    /\ sessions # <<>>
    /\ sessions[Len(sessions)].url = DefaultUrl
    /\ sessions[Len(sessions)].ok

DefaultFailed(sessions) ==
    /\ sessions # <<>>
    /\ sessions[Len(sessions)].url = DefaultUrl
    /\ ~sessions[Len(sessions)].ok

\* names of the records marked connected, in record order
RECURSIVE ConnectedNames(_)
ConnectedNames(records) ==
    IF records = <<>> THEN <<>>
    ELSE (IF Head(records).status = "True" THEN <<Head(records).mcp_name>> ELSE <<>>)
         \o ConnectedNames(Tail(records))

SessionNames(sessions) == [i \in 1..Len(sessions) |-> sessions[i].name]

AvailableRow(id) == \E r \in Matching(catalog, id) : r.is_available

\* C7: a scan is all-or-nothing for the write step. No step of a scan
\* other than its last one touches the catalog, and when get_all_mcp_tools
\* raises, update_tool_list raises an MCP connection error, the upsert is
\* not called and the catalog is left as it was, whatever the native and
\* plugin adapters had collected.
C7_RemoteFailureWritesNothing ==
    [][ /\ spc' # "done" => (catalog' = catalog /\ ~upsert_arg'.called)
        /\ (spc' = "done" /\ mcp_result'.kind \notin {"none", "ok"})
              => /\ sresult'.kind = "MCPConnectionError"
                 /\ ~upsert_arg'.called
                 /\ catalog' = catalog ]_vars

\* the remote adapter raised after native and plugin tools were collected,
\* over a catalog that an earlier scan had filled
C7_Witness ==
    /\ ScanDone
    /\ mcp_result.kind = "MCPConnectionError"
    /\ local_tools # <<>>
    /\ langchain_tools # <<>>
    /\ catalog # {}
    /\ \E r \in catalog : r.source = "local" /\ ~r.is_available

\* C8: when a registered connected server fails while the default server
\* succeeds, the scan raises nothing, every connected registered server and
\* then the default server were queried, and the catalog written holds an
\* available row for every tool of every server that answered and for
\* every native and plugin tool.
C8_PartialFailureStillWrites ==
    (/\ ScanDone
     /\ DefaultSucceeded(squeried)
     /\ \E i \in RegisteredSessions(squeried) : ~squeried[i].ok)
        => /\ sresult.kind = "ok"
           /\ SessionNames(squeried) = ConnectedNames(mcp_info) \o <<DefaultToken>>
           /\ upsert_arg.called
           /\ \A i \in 1..Len(squeried) :
                squeried[i].ok => Range(squeried[i].tools) \subseteq Range(upsert_arg.tool_list)
           /\ Range(local_tools) \cup Range(langchain_tools) \subseteq Range(upsert_arg.tool_list)
           /\ \A id \in Identities(upsert_arg.tool_list) : AvailableRow(id)

\* server A answered with a tool, the later server B failed, the default
\* server answered, and native and plugin tools exist
C8_Witness ==
    /\ ScanDone
    /\ Len(squeried) = 3
    /\ squeried[1].ok /\ squeried[1].tools # <<>>
    /\ ~squeried[2].ok
    /\ squeried[3].ok
    /\ local_tools # <<>>
    /\ langchain_tools # <<>>
    /\ sresult.kind = "ok"

RECURSIVE SessionTools(_)
SessionTools(sessions) ==
    IF sessions = <<>> THEN <<>>
    ELSE (IF Head(sessions).ok THEN Head(sessions).tools ELSE <<>>)
         \o SessionTools(Tail(sessions))

IsPrefix(s, t) == Len(s) <= Len(t) /\ \A i \in 1..Len(s) : s[i] = t[i]

\* C11: during a scan, sessions are opened only to the registered servers
\* whose record is marked connected, in record order and at the record's
\* URL; a record whose status is false or unknown is never contacted. Once
\* get_all_mcp_tools has ended, the default server has been contacted
\* exactly once, last, at the default URL, and a returned list is the
\* sessions' tools in that order, the default server's last.
C11_OnlyConnectedThenDefault ==
    LET expected == ConnectedNames(mcp_info) \o <<DefaultToken>>
        n == Len(ConnectedNames(mcp_info))
    IN /\ IsPrefix(SessionNames(squeried), expected)
       /\ \A i \in 1..Len(squeried) :
             IF i <= n
             THEN \E j \in 1..Len(mcp_info) :
                     /\ mcp_info[j].mcp_name = squeried[i].name
                     /\ mcp_info[j].mcp_server = squeried[i].url
                     /\ mcp_info[j].status = "True"
             ELSE squeried[i].url = DefaultUrl
       /\ (ScanDone /\ mcp_result.kind # "none")
             => /\ SessionNames(squeried) = expected
                /\ Cardinality({i \in 1..Len(squeried) : squeried[i].url = DefaultUrl}) = 1
       /\ (ScanDone /\ mcp_result.kind = "ok")
             => tools_info = SessionTools(squeried)

\* a record of unknown status is passed over; the connected server and
\* the default server both returned a tool
C11_Witness ==
    /\ ScanDone
    /\ Len(mcp_info) = 2
    /\ mcp_info[1].status = NoneStr
    /\ mcp_info[2].status = "True"
    /\ mcp_result.kind = "ok"
    /\ Len(squeried) = 2
    /\ Len(tools_info) = 2
    /\ tools_info[1].usage = mcp_info[2].mcp_name
    /\ tools_info[2].usage = DefaultToken

-----------------------------------------------------------------------------
(* Properties of the persisted catalog and the instance store *)

RowIdentities(rows) == {<<r.name, r.source>> : r \in rows}

NoDuplicateRows(rows) ==
    \A r, q \in rows : (r.name = q.name /\ r.source = q.source) => r = q

\* C12: a scan handed the same adapter outputs as the successful scan
\* before it leaves the catalog with the same tool identities and the same
\* number of rows, none of them a duplicate, also when the list holds two
\* descriptors of one identity.
C12_RescanIdempotent ==
    [][ rescan'
          => /\ upsert_arg'.called
             /\ upsert_arg'.tool_list = upsert_arg.tool_list
             /\ RowIdentities(catalog') = RowIdentities(catalog)
             /\ Cardinality(catalog') = Cardinality(catalog)
             /\ NoDuplicateRows(catalog') ]_vars

\* the same list was upserted twice and holds one identity twice
C12_Witness ==
    /\ rescan
    /\ upsert_arg.called
    /\ \E i, j \in 1..Len(upsert_arg.tool_list) :
          /\ i # j
          /\ Identity(upsert_arg.tool_list[i]) = Identity(upsert_arg.tool_list[j])
    /\ Cardinality(catalog) < Len(upsert_arg.tool_list)
    /\ Cardinality(catalog) = Cardinality(Identities(upsert_arg.tool_list))

\* C13: no scan and no save deletes a catalog row or a ToolInstance row. A
\* row keeps its key and identity for ever; after a successful scan a row
\* is available exactly when the scan listed its identity, so a tool that
\* is absent stays as an unavailable row and is available again once
\* listed; and a scan leaves every ToolInstance as it was.
C13_NothingDeleted ==
    [][ /\ \A r \in catalog : \E q \in catalog' :
              q.tool_id = r.tool_id /\ q.name = r.name /\ q.source = r.source
        /\ \A i \in instances : \E j \in instances' :
              j.tool_id = i.tool_id /\ j.agent_id = i.agent_id
        /\ <<catalog, upsert_arg, sresult>>' # <<catalog, upsert_arg, sresult>>
              => instances' = instances
        /\ upsert_arg'.called
              => \A r \in catalog' :
                    r.is_available <=> <<r.name, r.source>> \in Identities(upsert_arg'.tool_list)
      ]_vars

\* a saved, switched-on instance refers to a tool the latest scan did not
\* list, while another tool is listed
C13_Witness ==
    /\ upsert_arg.called
    /\ \E i \in instances, r \in catalog :
          /\ r.tool_id = i.tool_id
          /\ ~r.is_available
          /\ i.enabled
          /\ i.params # {}
    /\ \E r \in catalog : r.is_available

-----------------------------------------------------------------------------
(* Properties of the startup scan *)

StartupOver == upc \in {"finished", "raised"}

Current == tenant_ids[tidx]

\* C14: startup comes to an end, and by then update_tool_list has been
\* called once for every tenant of the list, in list order, whatever the
\* earlier tenants' scans did; a scan that raised is in the failure list
\* with its error, one that outlasted the wait is there with the timeout
\* marker, and the loop went on to the next tenant after either.
C14_EveryTenantAttempted ==
    /\ <>StartupOver
    /\ [](IsPrefix(attempts, tenant_ids) /\ Len(attempts) = tidx)
    /\ [](StartupOver
            => /\ attempts = tenant_ids
               /\ \A t \in Range(tenant_ids) :
                     /\ tasks[t].pc \in {"returned", "raised", "cancelled"}
                     /\ tasks[t].pc = "cancelled"
                           => TimeoutMarker(t) \in Range(failed_tenants)
                     /\ tasks[t].pc = "raised"
                           => ErrorMarker(t, tasks[t].out) \in Range(failed_tenants))

\* the first tenant's scan outlasted the wait, the second tenant's returned
C14_Witness ==
    /\ upc = "finished"
    /\ Len(tenant_ids) = 2
    /\ tasks[tenant_ids[1]].pc = "cancelled"
    /\ tasks[tenant_ids[2]].pc = "returned"
    /\ failed_tenants = <<TimeoutMarker(tenant_ids[1])>>
    /\ successful_tenants = 1
    /\ total_tools = Cardinality(tenant_rows[tenant_ids[2]])
    /\ total_tools > 0

\* C15: at most one tenant's scan is in progress, the one the loop waits
\* for; the loop moves to the next tenant only when no scan is in progress;
\* and a tenant's rows are written only by the scan the loop is waiting
\* for, so never by a scan that was timed out.
C15_OneScanAtATime ==
    [][ /\ \A t \in Tenants :
              Suspended(tasks'[t]) => (upc' = "waiting" /\ t = tenant_ids'[tidx'])
        /\ tidx' # tidx => \A t \in Tenants : ~Suspended(tasks[t])
        /\ \A t \in Tenants :
              tenant_rows'[t] # tenant_rows[t]
                 => /\ upc = "waiting"
                    /\ t = Current
                    /\ Suspended(tasks[t])
                    /\ \A u \in Tenants : tasks[u].pc = "cancelled" => u # t
      ]_vars

\* the first tenant was timed out and wrote nothing, then the second
\* tenant's scan wrote its rows
C15_Witness ==
    /\ Len(tenant_ids) = 2
    /\ tidx = 2
    /\ tasks[tenant_ids[1]].pc = "cancelled"
    /\ tasks[tenant_ids[2]].pc = "returned"
    /\ \A r \in tenant_rows[tenant_ids[1]] : ~r.is_available
    /\ \E r \in tenant_rows[tenant_ids[2]] : r.is_available

-----------------------------------------------------------------------------
(* Properties of the adapters *)

Ran(adapter) == apc = "returned" /\ ain.adapter = adapter

\* C16 (as claimed): when one item an adapter discovers is malformed, the
\* adapter does not raise, the malformed item has no descriptor in the
\* output and every well-formed item of the run has its own, for the native,
\* the plugin and the remote adapter alike.
C16_MalformedItemNeverRaises ==
    LET ItemOutcome(i) ==
            CASE ain.adapter = "native" -> local_tool_info(ain.items[i])
              [] ain.adapter = "plugin" -> _build_tool_info_from_langchain(ain.items[i])
              [] OTHER -> remote_tool_info(ain.server, ain.items[i])
        WellFormed == {i \in 1..Len(ain.items) : ItemOutcome(i).out.kind = "ok"}
    IN (apc = "returned" /\ Cardinality(WellFormed) = Len(ain.items) - 1)
          => /\ aout.out.kind = "ok"
             /\ Len(aout.tools) = Cardinality(WellFormed)
             /\ \A i \in WellFormed : ItemOutcome(i).tools[1] \in Range(aout.tools)

\* C17: get_langchain_tools returns without raising, and its list holds, in
\* discovery order, the descriptor of each discovered object whose
\* conversion succeeded and nothing else: a failing object is skipped and
\* the objects after it are still converted.
C17_PluginSkipsFailingObjects ==
    Ran("plugin") =>
        LET Converted == {i \in 1..Len(ain.items) :
                            _build_tool_info_from_langchain(ain.items[i]).out.kind = "ok"}
            Position(i) == Cardinality({k \in Converted : k <= i})
        IN /\ aout.out.kind = "ok"
           /\ Len(aout.tools) = Cardinality(Converted)
           /\ \A i \in Converted :
                 aout.tools[Position(i)] =
                     _build_tool_info_from_langchain(ain.items[i]).tools[1]

\* the first object discovered cannot be converted, the second one, found
\* after it, is the only descriptor returned
C17_Witness ==
    /\ Ran("plugin")
    /\ Len(ain.items) = 2
    /\ ~ain.items[1].hasName
    /\ ain.items[2].hasName
    /\ aout.out.kind = "ok"
    /\ Len(aout.tools) = 1
    /\ aout.tools[1].name = ain.items[2].name
    /\ aout.tools[1].source = "langchain"

\* C18: the params list of a native descriptor has one entry, in
\* constructor order, for each constructor parameter other than self and
\* the excluded ones; the entry of a parameter without a default has
\* optional false and no default, the entry of any other has optional true
\* and the declared default.
C18_ParamsFollowConstructor ==
    (Ran("native") /\ aout.out.kind = "ok") =>
        /\ Len(aout.tools) = Len(ain.items)
        /\ \A c \in 1..Len(ain.items) :
              LET sig == ain.items[c].sig
                  params == aout.tools[c].params
                  Emitted == {i \in 1..Len(sig) : sig[i].name # "self" /\ ~sig[i].exclude}
                  Position(i) == Cardinality({k \in Emitted : k <= i})
              IN /\ Len(params) = Cardinality(Emitted)
                 /\ \A i \in Emitted :
                       LET entry == params[Position(i)]
                       IN /\ Get(entry, "name") = Val("str", sig[i].name)
                          /\ sig[i].default = PydanticUndefined
                                => /\ Get(entry, "optional") = Val("bool", "False")
                                   /\ ~HasKey(entry, "default")
                          /\ sig[i].default # PydanticUndefined
                                => /\ Get(entry, "optional") = Val("bool", "True")
                                   /\ HasKey(entry, "default")
                                   /\ Get(entry, "default") = sig[i].default

\* a class with a required string, an excluded observer and a boolean
\* defaulting to True: two entries, flags false and true, the second with
\* the default true
C18_Witness ==
    /\ Ran("native")
    /\ aout.out.kind = "ok"
    /\ \E c \in 1..Len(ain.items) :
          /\ ain.items[c] = BetaTool
          /\ Len(aout.tools[c].params) = 2
          /\ Get(aout.tools[c].params[1], "type") = Val("str", "string")
          /\ Get(aout.tools[c].params[1], "optional") = Val("bool", "False")
          /\ ~HasKey(aout.tools[c].params[1], "default")
          /\ Get(aout.tools[c].params[2], "type") = Val("str", "boolean")
          /\ Get(aout.tools[c].params[2], "optional") = Val("bool", "True")
          /\ Get(aout.tools[c].params[2], "default") = Val("bool", "True")

\* C19: in the inputs of a remote descriptor every property of the tool's
\* flattened input schema has a description and a type: "see tool
\* description" and "string" where the schema gave none, the schema's own
\* values otherwise, every other attribute as the schema gave it; the text
\* has no $defs entry.
C19_RemoteBackfill ==
    (Ran("remote") /\ aout.out.kind = "ok") =>
        /\ Len(aout.tools) = Len(ain.items)
        /\ \A c \in 1..Len(ain.items) :
              LET text == aout.tools[c].inputs
                  properties == Get(input_schema(ain.items[c].inputSchema), "properties")
                  IsKey(q) == /\ q \in 2..(Len(text) - 2)
                              /\ text[q].t \in {"sq", "dq"}
                              /\ text[q - 1] \in {Tok("punct", "{"), Tok("punct", ",")}
                              /\ text[q + 1] = Tok("punct", ":")
                  \* where the dict of property k opens and closes in the text
                  Opens(k) == CHOOSE q \in 1..Len(text) :
                                 IsKey(q) /\ text[q].s = k /\ text[q + 2] = Tok("punct", "{")
                  Closes(k) == CHOOSE q \in (Opens(k) + 3)..Len(text) :
                                  /\ text[q] = Tok("punct", "}")
                                  /\ \A r \in (Opens(k) + 3)..(q - 1) : text[r] # Tok("punct", "}")
                  KeysOf(k, a) == {q \in (Opens(k) + 3)..(Closes(k) - 1) :
                                    IsKey(q) /\ text[q].s = a}
                  Gives(k, a, value) ==
                      /\ Cardinality(KeysOf(k, a)) = 1
                      /\ \A q \in KeysOf(k, a) : text[q + 2].s = value
              IN /\ \A p \in 1..Len(properties) :
                       LET k == properties[p][1]
                           v == properties[p][2]
                       IN /\ \E q \in 1..Len(text) :
                                IsKey(q) /\ text[q].s = k /\ text[q + 2] = Tok("punct", "{")
                          /\ Gives(k, "description",
                                   IF HasKey(v, "description") THEN Get(v, "description").val
                                   ELSE "see tool description")
                          /\ Gives(k, "type",
                                   IF HasKey(v, "type") THEN Get(v, "type").val ELSE "string")
                          /\ \A a \in 1..Len(v) : Gives(k, v[a][1], v[a][2].val)
                 /\ \A q \in 1..Len(text) : text[q].s # "$defs"

\* param1 came with neither description nor type and has both in the inputs
C19_Witness ==
    /\ Ran("remote")
    /\ aout.out.kind = "ok"
    /\ Len(aout.tools) >= 1
    /\ ain.items[1].inputSchema =
          <<<<"type", Val("str", "object")>>, <<"properties", <<<<"param1", <<>>>>>>>>>>
    /\ aout.tools[1].inputs =
          str_dict(<<<<"param1", <<<<"description", Val("str", "see tool description")>>,
                                   <<"type", Val("str", "string")>>>>>>>>)

\* C20 (as claimed): the inputs of every descriptor an adapter returns is
\* valid JSON text, for the native, the plugin and the remote adapter.
C20_InputsAlwaysJson ==
    apc = "returned" =>
        \A j \in 1..Len(aout.tools) : IsJsonText(aout.tools[j].inputs)

-----------------------------------------------------------------------------
(* Properties of the descriptors a scan writes *)

\* C21: every descriptor of the list a scan hands to the upsert has one of
\* the three sources; its usage is the name of the server that listed it
\* (the default token for the default server) when the source is mcp and
\* None otherwise; an mcp or langchain descriptor has no params and its
\* class_name is its name.
C21_DescriptorFields ==
    upsert_arg.called =>
        \A i \in 1..Len(upsert_arg.tool_list) :
            LET t == upsert_arg.tool_list[i]
            IN /\ t.source \in {"local", "mcp", "langchain"}
               /\ t.usage # NoneStr <=> t.source = "mcp"
               /\ t.source = "mcp"
                     => \E k \in 1..Len(squeried) :
                           /\ squeried[k].ok
                           /\ t \in Range(squeried[k].tools)
                           /\ t.usage = squeried[k].name
                           /\ squeried[k].url = DefaultUrl <=> t.usage = DefaultToken
               /\ t.source \in {"mcp", "langchain"}
                     => (t.params = <<>> /\ t.class_name = t.name)

\* the list written holds a local descriptor with params, a langchain one,
\* one listed by a registered server and one listed by the default server,
\* the remote ones under a sanitized name
C21_Witness ==
    /\ upsert_arg.called
    /\ \E i, j, k, l \in 1..Len(upsert_arg.tool_list) :
          /\ upsert_arg.tool_list[i].source = "local"
          /\ upsert_arg.tool_list[i].params # <<>>
          /\ upsert_arg.tool_list[j].source = "langchain"
          /\ upsert_arg.tool_list[k].source = "mcp"
          /\ upsert_arg.tool_list[k].usage = DefaultToken
          /\ upsert_arg.tool_list[l].source = "mcp"
          /\ upsert_arg.tool_list[l].usage \notin {DefaultToken, NoneStr}
          /\ upsert_arg.tool_list[l].origin_name # upsert_arg.tool_list[l].name

-----------------------------------------------------------------------------
(* Further properties of the Dispatch Router *)

\* C22: a call of validate_tool_impl, whatever the source and the outcome,
\* leaves the catalog and the tool instances as they were: the only
\* database call it makes is the lookup of a server's URL, every other call
\* runs a tool or talks to a server.
C22_ValidateWritesNothing ==
    [][ (vpc = "called" /\ vpc' = "returned")
           => /\ catalog' = catalog
              /\ instances' = instances
              /\ Ops(veffects') \subseteq
                    NetworkOps \cup {"get_mcp_server", "registry_scan", "instantiate",
                                     "forward", "discover", "invoke"}
      ]_vars

\* a local tool was instantiated with parameters and run while the tables
\* held a row and an instance, which are still there
C22_Witness ==
    /\ Returned
    /\ vreq.source = "local"
    /\ vresult.kind = "ok"
    /\ "forward" \in Ops(veffects)
    /\ catalog # {}
    /\ instances # {}

\* C23: the endpoint answers every request with one status: 200 and the
\* tool's result when validate_tool_impl returned, 503 when it raised
\* MCPConnectionError, 404 when it raised NotFoundException, 500 for any
\* other exception, a failure of get_current_user_id included; the detail
\* of an error is the text of the exception.
C23_StatusMapping ==
    hpc = "responded" =>
        LET e == IF hauth.kind = "ok" THEN himpl ELSE hauth
        IN /\ hresp.status_code \in {200, 503, 404, 500}
           /\ hauth.kind = "ok" <=> himpl # NoOutcome
           /\ hresp.status_code = 200 <=> e.kind = "ok"
           /\ hresp.status_code = 503 <=> e.kind = "MCPConnectionError"
           /\ hresp.status_code = 404 <=> e.kind = "NotFoundException"
           /\ hauth.kind # "ok" => hresp.status_code = 500
           /\ hresp.body = e.msg

\* an MCP request for a server that is not registered is answered 404
\* with the text of the NotFoundException
C23_Witness ==
    /\ hpc = "responded"
    /\ hauth.kind = "ok"
    /\ hreq.source = "mcp"
    /\ himpl.kind = "NotFoundException"
    /\ hresp = Response(404, himpl.msg)

-----------------------------------------------------------------------------
(* Properties of the file tools *)

\* C24 (as claimed): whatever the tool and the path handed to it, a path
\* _validate_path accepts comes back as the workspace directory or a path
\* beneath it, and a call with a path that resolves anywhere else, a sibling
\* directory whose name begins with the workspace's name included, fails
\* with Permission denied and leaves the file system as it was.
C24_PathsStayInWorkspace ==
    LET Inside(path) == path = init_path \/ Beneath(path, init_path)
        Resolved(path) == normpath(IF isabs(path) THEN path ELSE join(init_path, path))
        Given == IF fcall.tool = "move_item" THEN {fcall.path, fcall.destination_path}
                 ELSE {fcall.path}
    IN (fpc = "done" /\ <<>> \notin Given) =>
          /\ \A path \in Given :
                _validate_path(fcall.tool, path).kind = "ok"
                   => Inside(_validate_path(fcall.tool, path).msg)
          /\ (\E path \in Given : ~Inside(Resolved(path)))
                => /\ fout.kind = "Exception"
                   /\ "Permission denied" \in Range(fout.msg)
                   /\ ffs = fwas

\* C25: delete_directory called with a path that resolves to the workspace
\* directory itself, by ".", by the absolute path or through ".."
\* components, fails with Permission denied and changes nothing; after any
\* call of delete_directory the workspace directory is still there.
C25_RootNeverDeleted ==
    (fpc = "done" /\ fcall.tool = "delete_directory") =>
        /\ Workspace \in ffs
        /\ (/\ fcall.path # <<>>
            /\ normpath(IF isabs(fcall.path) THEN fcall.path
                        ELSE join(init_path, fcall.path)) = init_path)
              => /\ fout.kind = "Exception"
                 /\ "Permission denied" \in Range(fout.msg)
                 /\ ffs = fwas

\* "a/.." names the workspace, which holds a directory: the call is refused
\* and the directory is still there
C25_Witness ==
    /\ fpc = "done"
    /\ fcall.tool = "delete_directory"
    /\ fcall.path = <<"a", "/", ".", ".">>
    /\ "Cannot delete the workspace root directory" \in Range(fout.msg)
    /\ Node(<<"/", "w", "/", "a">>, "dir") \in ffs
    /\ ffs = fwas

\* C26: in the MCP validate path call_tool is issued only after the opened
\* session has answered is_connected with yes; a session that reports not
\* connected ends the request in MCPConnectionError with no call_tool, and a
\* successful request returns the text of the first element of the result
\* list of the named tool at the resolved server.
C26_CallOnlyAfterConnected ==
    (Returned /\ vreq.source = "mcp")
        => LET At(op) == {i \in 1..Len(veffects) : veffects[i].op = op}
               Opened == At("client_open") # {}
           IN /\ \A i \in At("call_tool") :
                    /\ venv.net \notin {"not_connected", "connect_raises"}
                    /\ veffects[i].arg = vreq.name
                    /\ \E j \in At("is_connected") :
                          /\ j < i
                          /\ \E k \in At("client_open") :
                                k < j /\ veffects[k].arg = veffects[j].arg
              /\ (Opened /\ venv.net = "not_connected")
                    => /\ vresult.kind = "MCPConnectionError"
                       /\ At("call_tool") = {}
              /\ vresult.kind = "ok"
                    => /\ At("call_tool") # {}
                       /\ venv.net = "ok"
                       /\ \E k \in At("client_open") :
                            vresult.msg = <<"text of first result of", vreq.name,
                                            "at", veffects[k].arg>>

\* a registered server was reached, its session reported not connected and
\* the request ended without a call
C26_Witness ==
    /\ Returned
    /\ vreq.source = "mcp"
    /\ vreq.usage = "srvA"
    /\ Registered("srvA")
    /\ venv.net = "not_connected"
    /\ "is_connected" \in Ops(veffects)
    /\ "call_tool" \notin Ops(veffects)
    /\ vresult.kind = "MCPConnectionError"

\* C27: in the LOCAL validate path the class is instantiated with exactly the
\* caller's params, plus observer=None if and only if the constructor has an
\* observer parameter and the caller's params hold none; a caller-supplied
\* observer is passed unchanged and none is added to a constructor that
\* does not accept one.
C27_ConstructorArguments ==
    (Returned /\ vreq.source = "local")
        => \A i \in 1..Len(veffects) :
             veffects[i].op = "instantiate"
                => LET given == IF vreq.params.none THEN {} ELSE vreq.params.kv
                       passed == veffects[i].kv
                       Accepts(c) == \E k \in 1..Len(c.sig) : c.sig[k].name = "observer"
                       Supplied == \E pair \in given : pair[1] = "observer"
                       added == <<"observer", NoneStr>>
                   IN \E c \in ClassSet :
                        /\ c.cls = veffects[i].arg
                        /\ given \subseteq passed
                        /\ passed \ given \subseteq {added}
                        /\ (added \in passed \ given) <=> (Accepts(c) /\ ~Supplied)

\* a class whose constructor takes an observer was built from params
\* without one
C27_Witness ==
    /\ Returned
    /\ vreq.source = "local"
    /\ vreq.params = Dict({<<"p", "1">>})
    /\ \E i \in 1..Len(veffects) :
          /\ veffects[i].op = "instantiate"
          /\ veffects[i].arg = "AlphaTool"
          /\ veffects[i].kv = {<<"p", "1">>, <<"observer", NoneStr>>}

C29_StartupCounts ==
    LET FailedAt(t) == {i \in 1..Len(failed_tenants) : failed_tenants[i][1] = t}
        Succeeded == {t \in Range(tenant_ids) : FailedAt(t) = {}}
        RECURSIVE Sum(_)
        Sum(S) == IF S = {} THEN 0
                  ELSE LET t == CHOOSE u \in S : TRUE
                       IN Cardinality(tenant_rows[t]) + Sum(S \ {t})
    IN /\ (upc = "finished" /\ tenant_ids # <<>>)
            => /\ successful_tenants + Len(failed_tenants) = Len(tenant_ids)
               /\ \A t \in Range(tenant_ids) : Cardinality(FailedAt(t)) <= 1
               /\ \A i \in 1..Len(failed_tenants) :
                     failed_tenants[i][1] \in Range(tenant_ids)
               /\ successful_tenants = Cardinality(Succeeded)
               /\ \A t \in Succeeded : tasks[t].pc = "returned"
               /\ total_tools = Sum(Succeeded)
       /\ upc = "raised" => (tidx = 0 /\ attempts = <<>> /\ tenant_ids = <<>>)

\* two tenants: the first scanned and counted, the second scanned but its
\* rows could not be read, so it is a failure and adds nothing
C29_Witness ==
    /\ upc = "finished"
    /\ Len(tenant_ids) = 2
    /\ tasks[tenant_ids[1]].pc = "returned"
    /\ tasks[tenant_ids[2]].pc = "returned"
    /\ successful_tenants = 1
    /\ Len(failed_tenants) = 1
    /\ failed_tenants[1][1] = tenant_ids[2]
    /\ tenant_rows[tenant_ids[2]] # {}
    /\ total_tools = Cardinality(tenant_rows[tenant_ids[1]])
    /\ total_tools > 0

-----------------------------------------------------------------------------
(* Properties of the terminal tool *)

=============================================================================
